---- MODULE Spec2Model ----
(***************************************************************************)
(* Trend scoring engine of daily-signal-feed (src/src/trend_scorer.py) and *)
(* the scoring and saving steps of the build (src/src/build.py).           *)
(*                                                                         *)
(* Conventions                                                             *)
(*   - a Python str is a sequence of one-character strings;                *)
(*   - a float that the code only multiplies, divides and compares is an   *)
(*     exact rational [n, d]; a float rounded to two decimals is an        *)
(*     integer number of hundredths;                                       *)
(*   - a datetime is an integer number of hours since the epoch of the     *)
(*     model; isoformat() renders it as a fixed-width digit string.        *)
(***************************************************************************)
EXTENDS Integers, Sequences, FiniteSets, TLC

(***************************************************************************)
(* Program constants                                                       *)
(***************************************************************************)
MAX_HISTORY_DAYS == 7

TOP_TRENDING_COUNT == 15

SNAPSHOT_TERMS == 200

TOPIC_TERMS == 100

SAMPLE_SOURCES == 5

HoursPerDay == 24

STOP_TERMS ==
  {
    <<"t","h","e">>, <<"a","n","d">>, <<"f","o","r">>, <<"t","h","a","t">>,
    <<"t","h","i","s">>, <<"w","i","t","h">>, <<"f","r","o","m">>,
    <<"a","r","e">>, <<"w","a","s">>, <<"h","a","s">>, <<"h","a","v","e">>,
    <<"w","i","l","l">>, <<"c","a","n">>, <<"b","u","t">>, <<"n","o","t">>,
    <<"y","o","u">>, <<"a","l","l">>, <<"t","h","e","y">>,
    <<"t","h","e","i","r">>, <<"i","t","s">>, <<"o","u","r">>,
    <<"y","o","u","r">>, <<"o","n","e">>, <<"t","w","o">>, <<"n","e","w">>,
    <<"m","o","r","e">>, <<"h","o","w">>, <<"w","h","a","t">>,
    <<"w","h","e","n">>, <<"w","h","o">>, <<"w","h","y">>,
    <<"w","o","u","l","d">>, <<"c","o","u","l","d">>,
    <<"s","h","o","u","l","d">>, <<"a","b","o","u","t">>,
    <<"i","n","t","o">>, <<"t","h","a","n">>, <<"b","e","e","n">>,
    <<"j","u","s","t">>, <<"a","l","s","o">>, <<"s","o","m","e">>,
    <<"v","e","r","y">>, <<"m","o","s","t">>, <<"l","i","k","e">>,
    <<"o","v","e","r">>, <<"a","f","t","e","r">>,
    <<"b","e","f","o","r","e">>, <<"b","e","t","w","e","e","n">>,
    <<"u","n","d","e","r">>, <<"t","h","r","o","u","g","h">>,
    <<"d","u","r","i","n","g">>, <<"f","i","r","s","t">>,
    <<"l","a","s","t">>, <<"n","e","x","t">>, <<"o","t","h","e","r">>,
    <<"m","a","n","y">>, <<"m","u","c","h">>, <<"e","a","c","h">>,
    <<"e","v","e","r","y">>, <<"b","o","t","h">>, <<"a","n","y">>
  }

(***************************************************************************)
(* Characters and strings                                                  *)
(***************************************************************************)
UpperSeq ==
  << "A", "B", "C", "D", "E", "F", "G", "H", "I", "J", "K", "L", "M",
     "N", "O", "P", "Q", "R", "S", "T", "U", "V", "W", "X", "Y", "Z" >>

LowerSeq ==
  << "a", "b", "c", "d", "e", "f", "g", "h", "i", "j", "k", "l", "m",
     "n", "o", "p", "q", "r", "s", "t", "u", "v", "w", "x", "y", "z" >>

DigitSeq == << "0", "1", "2", "3", "4", "5", "6", "7", "8", "9" >>

Upper == { UpperSeq[i] : i \in 1..Len(UpperSeq) }

Lower == { LowerSeq[i] : i \in 1..Len(LowerSeq) }

Digit == { DigitSeq[i] : i \in 1..Len(DigitSeq) }

\* [A-Za-z0-9]
Alnum == Upper \cup Lower \cup Digit

\* \w
Word == Alnum \cup {"_"}

\* \s
Whitespace == {" ", "\t", "\n", "\r", "\f"}

\* str.lower() of one character
LowerChar(c) ==
  IF c \in Upper
    THEN LowerSeq[CHOOSE i \in 1..Len(UpperSeq) : UpperSeq[i] = c]
    ELSE c

\* str.lower()
StrLower(s) == [i \in 1..Len(s) |-> LowerChar(s[i])]

\* str.strip()
RECURSIVE LStrip(_)
LStrip(s) ==
  IF s # << >> /\ Head(s) \in Whitespace THEN LStrip(Tail(s)) ELSE s

RECURSIVE RStrip(_)
RStrip(s) ==
  IF s # << >> /\ s[Len(s)] \in Whitespace
    THEN RStrip(SubSeq(s, 1, Len(s) - 1))
    ELSE s

Strip(s) == RStrip(LStrip(s))

\* \b between text[i-1] and text[i] (i in 1..Len(text)+1)
Boundary(text, i) ==
  LET before == i > 1 /\ text[i - 1] \in Word
      after  == i <= Len(text) /\ text[i] \in Word
  IN  before # after

\* end of the maximal run of characters of class cls that starts at i
\* (i - 1 when text[i] is not in cls)
RECURSIVE RunEnd(_, _, _)
RunEnd(text, i, cls) ==
  IF i <= Len(text) /\ text[i] \in cls THEN RunEnd(text, i + 1, cls) ELSE i - 1

(***************************************************************************)
(* _extract_terms                                                          *)
(***************************************************************************)
\* Ends of the successive words of  [A-Z][A-Za-z0-9]*(?:\s+[A-Z][A-Za-z0-9]*)*
\* matched greedily from an upper-case letter at i: the end e of the first
\* word, then of every further word reached over the white space up to w.
RECURSIVE CapsEnds(_, _)
CapsEndsFrom(text, e, w) ==
  IF w > e /\ w < Len(text) /\ text[w + 1] \in Upper
    THEN << e >> \o CapsEnds(text, w + 1)
    ELSE << e >>

WordEnd(text, e) == CapsEndsFrom(text, e, RunEnd(text, e + 1, Whitespace))

\* the ends when the body of a word may hold a hyphen: [A-Za-z0-9-]*
CapsEndsHyphen(text, i) ==
  WordEnd(text, RunEnd(text, i + 1, Alnum \cup {"-"}))

CapsEnds(text, i) == WordEnd(text, RunEnd(text, i + 1, Alnum))

\* the last of the candidate ends that is followed by a word boundary, 0
\* when none is
LastBoundary(text, ends) ==
  LET ok == { k \in 1..Len(ends) : Boundary(text, ends[k] + 1) }
  IN  IF ok = {} THEN 0
      ELSE ends[CHOOSE k \in ok : \A j \in ok : j <= k]

\* End of the match of the capitalised-phrase pattern at i, 0 when there is
\* none: the longest candidate end that is followed by a word boundary.
CapsMatchEnd(text, i) ==
  IF ~ (text[i] \in Upper /\ Boundary(text, i)) THEN 0
  ELSE LastBoundary(text, CapsEnds(text, i))

\* re.findall of the capitalised-phrase pattern, scanning from i
RECURSIVE FindCaps(_, _)
CapsFrom(text, i, e) ==
  IF e = 0 THEN FindCaps(text, i + 1)
  ELSE << SubSeq(text, i, e) >> \o FindCaps(text, e + 1)

FindCaps(text, i) ==
  IF i > Len(text) THEN << >> ELSE CapsFrom(text, i, CapsMatchEnd(text, i))

\* End of the match of  \b[A-Z]{2,6}\b  at i, 0 when there is none; e is the
\* end of the run of upper-case letters at i
AcronymEnd(text, i, e) ==
  IF /\ Boundary(text, i)
     /\ e - i + 1 >= 2
     /\ e - i + 1 <= 6
     /\ Boundary(text, e + 1)
    THEN e ELSE 0

AcronymMatchEnd(text, i) == AcronymEnd(text, i, RunEnd(text, i, Upper))

\* re.findall of the acronym pattern, scanning from i
RECURSIVE FindAcronyms(_, _)
AcronymsFrom(text, i, e) ==
  IF e = 0 THEN FindAcronyms(text, i + 1)
  ELSE << SubSeq(text, i, e) >> \o FindAcronyms(text, e + 1)

FindAcronyms(text, i) ==
  IF i > Len(text) THEN << >>
  ELSE AcronymsFrom(text, i, AcronymMatchEnd(text, i))

\* re.findall of  #(\w+)  scanning from i: the group, without the marker; e
\* is the end of the run of word characters after i
RECURSIVE FindHashtags(_, _)
HashtagsFrom(text, i, e) ==
  IF text[i] = "#" /\ e > i
    THEN << SubSeq(text, i + 1, e) >> \o FindHashtags(text, e + 1)
    ELSE FindHashtags(text, i + 1)

FindHashtags(text, i) ==
  IF i > Len(text) THEN << >>
  ELSE HashtagsFrom(text, i, RunEnd(text, i + 1, Word))

\* a capitalised phrase once stripped: kept when at least 2 long and not a
\* stop term
KeepCap(cleaned) ==
  IF Len(cleaned) >= 2 /\ StrLower(cleaned) \notin STOP_TERMS
    THEN << cleaned >> ELSE << >>

RECURSIVE KeepCaps(_)
KeepCaps(caps) ==
  IF caps = << >> THEN << >>
  ELSE KeepCap(Strip(Head(caps))) \o KeepCaps(Tail(caps))

\* the acronyms kept: not a stop term
RECURSIVE KeepAcronyms(_)
KeepAcronyms(acrs) ==
  IF acrs = << >> THEN << >>
  ELSE (IF StrLower(Head(acrs)) \notin STOP_TERMS
          THEN << Head(acrs) >> ELSE << >>) \o KeepAcronyms(Tail(acrs))

ExtractTerms(text) ==
  IF text = << >> THEN << >>
  ELSE KeepCaps(FindCaps(text, 1))
         \o KeepAcronyms(FindAcronyms(text, 1))
         \o FindHashtags(text, 1)

(***************************************************************************)
(* Floats as exact rationals [n, d] in lowest terms, n >= 0 and d > 0      *)
(***************************************************************************)
RECURSIVE Gcd(_, _)
Gcd(a, b) == IF b = 0 THEN a ELSE Gcd(b, a % b)

Reduced(n, d, g) == [n |-> n \div g, d |-> d \div g]

Rat(n, d) == Reduced(n, d, Gcd(n, d))

RatLess(a, b) == a.n * b.d < b.n * a.d

RatLeq(a, b) == a.n * b.d <= b.n * a.d

RatEq(a, b) == a.n * b.d = b.n * a.d

RatMul(a, b) == Rat(a.n * b.n, a.d * b.d)

\* min(a, b) and max(a, b) of Python: the first argument on a tie
RatMin(a, b) == IF RatLess(b, a) THEN b ELSE a

RatMax(a, b) == IF RatLess(a, b) THEN b ELSE a

\* round(x, 2) of a non-negative float, in hundredths.  When x lies exactly
\* half-way between two hundredths the result of the binary computation is
\* one of the two neighbours; which one is fixed by tieUp.
Round2(x, tieUp) ==
  LET num == x.n * 100
      q   == num \div x.d
      r   == num % x.d
  IN  IF 2 * r < x.d THEN q
      ELSE IF 2 * r > x.d THEN q + 1
      ELSE IF tieUp THEN q + 1 ELSE q

(***************************************************************************)
(* Time: datetime.now(timezone.utc), timedelta, isoformat, str comparison  *)
(***************************************************************************)
MaxHistoryHours == MAX_HISTORY_DAYS * HoursPerDay

\* the decimal digits of n, zero-padded to width
RECURSIVE ZeroPad(_, _)
ZeroPad(n, width) ==
  IF width = 0 THEN << >>
  ELSE ZeroPad(n \div 10, width - 1) \o << DigitSeq[(n % 10) + 1] >>

\* datetime.isoformat(): date field, "T", time field, each of fixed width
IsoFormat(t) ==
  ZeroPad(t \div HoursPerDay, 3) \o << "T" >> \o ZeroPad(t % HoursPerDay, 2)

\* the characters of the model in code point order
CodePoints ==
  << "\t", "\n", "\f", "\r", " ", "#", "-" >> \o DigitSeq \o UpperSeq
    \o << "_" >> \o LowerSeq

Ord(c) == CHOOSE i \in 1..Len(CodePoints) : CodePoints[i] = c

\* a < b for Python strings
RECURSIVE StrLess(_, _)
StrLess(a, b) ==
  IF b = << >> THEN FALSE
  ELSE IF a = << >> THEN TRUE
  ELSE IF Head(a) = Head(b) THEN StrLess(Tail(a), Tail(b))
  ELSE Ord(Head(a)) < Ord(Head(b))

\* a >= b for Python strings
StrGeq(a, b) == ~ StrLess(a, b)

(***************************************************************************)
(* Python values and JSON documents, tagged by type.  A dict and a JSON    *)
(* object are sequences of <<key, value>> in insertion order.              *)
(***************************************************************************)
PyNone == [t |-> "NoneType", v |-> << >>]

PyInt(n) == [t |-> "int", v |-> n]

PyStr(s) == [t |-> "str", v |-> s]

PyList(items) == [t |-> "list", v |-> items]

PyDict(pairs) == [t |-> "dict", v |-> pairs]

JNull == [t |-> "null", v |-> << >>]

JNumber(n) == [t |-> "number", v |-> n]

JString(s) == [t |-> "string", v |-> s]

JArray(items) == [t |-> "array", v |-> items]

JObject(members) == [t |-> "object", v |-> members]

\* dict.get(key, default) on the pairs of a dict (its keys are distinct)
PairsGet(pairs, key, default) ==
  LET at == { i \in 1..Len(pairs) : pairs[i][1] = key }
  IN  IF at = {} THEN default ELSE pairs[CHOOSE i \in at : TRUE][2]

DictGet(d, key, default) == PairsGet(d.v, key, default)

\* the dict built from the members of a JSON object read in order: a key
\* keeps the position of its first member and the value of its last one
PairsFrom(members) ==
  LET n       == Len(members)
      keys    == { members[i][1] : i \in 1..n }
      indexed == [i \in 1..n |-> <<i, members[i][1]>>]
      first   == SelectSeq(indexed,
                   LAMBDA m : \A j \in 1..(m[1] - 1) : members[j][1] # m[2])
      Last(k) == CHOOSE i \in 1..n :
                   /\ members[i][1] = k
                   /\ \A j \in (i + 1)..n : members[j][1] # k
  IN  IF Cardinality(keys) = n THEN members
      ELSE [i \in 1..Len(first) |->
              <<first[i][2], members[Last(first[i][2])][2]>>]

\* json.load of a well-formed document
RECURSIVE JsonLoad(_)
JsonLoad(j) ==
  CASE j.t = "null"   -> PyNone
    [] j.t = "number" -> PyInt(j.v)
    [] j.t = "string" -> PyStr(j.v)
    [] j.t = "array"  -> PyList([i \in 1..Len(j.v) |-> JsonLoad(j.v[i])])
    [] j.t = "object" ->
         PyDict(PairsFrom([i \in 1..Len(j.v) |->
                             <<j.v[i][1], JsonLoad(j.v[i][2])>>]))

\* json.dump of a value made of None, int, str, list and dict
RECURSIVE JsonDump(_)
JsonDump(p) ==
  CASE p.t = "NoneType" -> JNull
    [] p.t = "int"      -> JNumber(p.v)
    [] p.t = "str"      -> JString(p.v)
    [] p.t = "list"     -> JArray([i \in 1..Len(p.v) |-> JsonDump(p.v[i])])
    [] p.t = "dict"     ->
         JObject([i \in 1..Len(p.v) |-> <<p.v[i][1], JsonDump(p.v[i][2])>>])

(***************************************************************************)
(* The history file: absent, text that is not a JSON document (garbage, or *)
(* an empty or partly written file), or a JSON document.                   *)
(***************************************************************************)
FileMissing == [kind |-> "missing", doc |-> JNull]

FileUnparseable == [kind |-> "unparseable", doc |-> JNull]

FileJson(doc) == [kind |-> "json", doc |-> doc]

\* `for s in data`: the items, or TypeError when data is not iterable
Iterate(data) ==
  CASE data.t = "list" -> [exc |-> "none", items |-> data.v]
    [] data.t = "dict" ->
         [exc |-> "none",
          items |-> [i \in 1..Len(data.v) |-> PyStr(data.v[i][1])]]
    [] data.t = "str"  ->
         [exc |-> "none",
          items |-> [i \in 1..Len(data.v) |-> PyStr(<< data.v[i] >>)]]
    [] OTHER -> [exc |-> "TypeError", items |-> << >>]

\* [s for s in items if s.get("timestamp", "") >= cutoff], left to right:
\* s.get raises AttributeError unless s is a dict, and >= raises TypeError
\* unless the timestamp is a str
RECURSIVE FilterSnapshots(_, _)
\* the comprehension with > in place of >=
KeepAfter(s, ts, cutoff, rest) ==
  IF s.t # "dict" THEN [exc |-> "AttributeError", kept |-> << >>]
  ELSE IF ts.t # "str" THEN [exc |-> "TypeError", kept |-> << >>]
  ELSE IF rest.exc # "none" THEN rest
  ELSE [exc  |-> "none",
        kept |-> (IF StrLess(cutoff, ts.v) THEN << s >> ELSE << >>)
                   \o rest.kept]

KeepFrom(s, ts, cutoff, rest) ==
  IF s.t # "dict" THEN [exc |-> "AttributeError", kept |-> << >>]
  ELSE IF ts.t # "str" THEN [exc |-> "TypeError", kept |-> << >>]
  ELSE IF rest.exc # "none" THEN rest
  ELSE [exc  |-> "none",
        kept |-> (IF StrGeq(ts.v, cutoff) THEN << s >> ELSE << >>)
                   \o rest.kept]

FilterSnapshots(items, cutoff) ==
  IF items = << >> THEN [exc |-> "none", kept |-> << >>]
  ELSE KeepFrom(Head(items),
                IF Head(items).t = "dict"
                  THEN DictGet(Head(items), "timestamp", PyStr(<< >>))
                  ELSE PyNone,
                cutoff,
                FilterSnapshots(Tail(items), cutoff))

\* the outcome of the list comprehension of _load_history: TypeError is
\* caught, AttributeError is not
Loaded(it, res) ==
  IF it.exc = "TypeError" \/ res.exc = "TypeError"
    THEN [raised |-> "none", history |-> << >>]
  ELSE IF res.exc = "AttributeError"
    THEN [raised |-> "AttributeError", history |-> << >>]
  ELSE [raised |-> "none", history |-> res.kept]

\* the data read from the file, filtered
LoadData(it, cutoff) == Loaded(it, FilterSnapshots(it.items, cutoff))

\* _load_history at time now: the exception that leaves the method, if any,
\* and the list it returns
LoadHistory(f, now) ==
  IF f.kind = "missing" THEN [raised |-> "none", history |-> << >>]
  ELSE IF f.kind = "unparseable"
    \* json.JSONDecodeError, caught
    THEN [raised |-> "none", history |-> << >>]
  ELSE LoadData(Iterate(JsonLoad(f.doc)), IsoFormat(now - MaxHistoryHours))

(***************************************************************************)
(* Counter: a sequence of <<term, count>> in insertion order               *)
(***************************************************************************)
\* counter[term], 0 for a term that was never counted
CounterGet(counter, term) == PairsGet(counter, term, 0)

\* counter[term] += 1: a new term is added at the end
CounterIncr(counter, term) ==
  IF \E i \in 1..Len(counter) : counter[i][1] = term
    THEN [i \in 1..Len(counter) |->
            IF counter[i][1] = term
              THEN <<term, counter[i][2] + 1>> ELSE counter[i]]
    ELSE Append(counter, <<term, 1>>)

\* the distinct counts of the counter, highest first
CountsDesc(counter) ==
  LET vals == { counter[i][2] : i \in 1..Len(counter) }
  IN  [k \in 1..Cardinality(vals) |->
         CHOOSE v \in vals : Cardinality({ w \in vals : w > v }) = k - 1]

\* the items whose count is counts[k] or a later (lower) one, every count
\* with its items in insertion order
RECURSIVE FromCount(_, _, _)
FromCount(counter, counts, k) ==
  IF k > Len(counts) THEN << >>
  ELSE SelectSeq(counter, LAMBDA p : p[2] = counts[k])
         \o FromCount(counter, counts, k + 1)

\* sorted(counter.items(), key=count, reverse=True): stable, so items of
\* equal count stay in insertion order
SortByCount(counter) == FromCount(counter, CountsDesc(counter), 1)

\* s[:n]
Prefix(s, n) == IF Len(s) <= n THEN s ELSE SubSeq(s, 1, n)

\* Counter.most_common(n)
MostCommon(counter, n) == Prefix(SortByCount(counter), n)

(***************************************************************************)
(* save_history: the snapshot, the appended and pruned list                *)
(***************************************************************************)
\* dict(pairs) of <<term, count>> pairs with distinct terms
DictOfCounts(pairs) ==
  PyDict([i \in 1..Len(pairs) |-> <<pairs[i][1], PyInt(pairs[i][2])>>])

\* the first 200 terms counted, whatever their counts
SnapshotFirstTerms(counter) ==
  DictOfCounts(Prefix(counter, SNAPSHOT_TERMS))

\* dict(self.current_mentions.most_common(200))
SnapshotMentions(counter) ==
  DictOfCounts(MostCommon(counter, SNAPSHOT_TERMS))

\* a snapshot of the time alone
SnapshotBare(counter, now) ==
  PyDict(<< <<"timestamp", PyStr(IsoFormat(now))>> >>)

Snapshot(counter, now) ==
  PyDict(<< <<"timestamp", PyStr(IsoFormat(now))>>,
            <<"mentions", SnapshotMentions(counter)>> >>)

\* the append and the prune, and then no more than the two newest kept
SavedLatest(hist, counter, now) ==
  LET kept == FilterSnapshots(hist \o << Snapshot(counter, now) >>,
                              IsoFormat(now - MaxHistoryHours)).kept
  IN  IF Len(kept) <= 2 THEN kept ELSE SubSeq(kept, Len(kept) - 1, Len(kept))

\* self.history after the append and the prune
SavedHistory(hist, counter, now) ==
  FilterSnapshots(hist \o << Snapshot(counter, now) >>,
                  IsoFormat(now - MaxHistoryHours)).kept

(***************************************************************************)
(* _get_historical_avg, _calculate_velocity                                *)
(***************************************************************************)
\* sum(counts) of the term over the snapshots
RECURSIVE SumCounts(_, _)
SumCounts(hist, term) ==
  IF hist = << >> THEN 0
  ELSE DictGet(DictGet(Head(hist), "mentions", PyDict(<< >>)),
               term, PyInt(0)).v
         + SumCounts(Tail(hist), term)

\* the average over the snapshots that hold the term
HistoricalAvgPresent(hist, term) ==
  LET holds == { i \in DOMAIN hist :
                   DictGet(DictGet(hist[i], "mentions", PyDict(<< >>)),
                           term, PyNone) # PyNone }
  IN  IF holds = {} THEN Rat(0, 1)
      ELSE Rat(SumCounts(hist, term), Cardinality(holds))

\* _get_historical_avg(term)
HistoricalAvg(hist, term) ==
  IF hist = << >> THEN Rat(0, 1)
  ELSE Rat(SumCounts(hist, term), Len(hist))

\* _calculate_velocity with the same boost for every new term
VelocityOneBoost(hist_avg, current_count) ==
  IF hist_avg.n = 0 THEN Rat(2, 1)
  ELSE RatMin(Rat(current_count * hist_avg.d, hist_avg.n), Rat(10, 1))

\* _calculate_velocity without the cap
VelocityUncapped(hist_avg, current_count) ==
  IF hist_avg.n = 0
    THEN (IF current_count >= 2 THEN Rat(2, 1) ELSE Rat(3, 2))
    ELSE Rat(current_count * hist_avg.d, hist_avg.n)

\* _calculate_velocity, given hist_avg
VelocityFor(hist_avg, current_count) ==
  IF hist_avg.n = 0
    THEN (IF current_count >= 2 THEN Rat(2, 1) ELSE Rat(3, 2))
    ELSE RatMin(Rat(current_count * hist_avg.d, hist_avg.n), Rat(10, 1))

CalculateVelocity(hist, term, current_count) ==
  VelocityFor(HistoricalAvg(hist, term), current_count)

(***************************************************************************)
(* Articles: a dict with string keys is a record; a key may be absent.     *)
(* published is a datetime [t |-> "datetime", v |-> hours]; trend_score is *)
(* in hundredths.                                                          *)
(***************************************************************************)
PyDatetime(hours) == [t |-> "datetime", v |-> hours]

\* article.get(key, default)
Get(a, key, default) == IF key \in DOMAIN a THEN a[key] ELSE default

\* article[key] = value
SetItem(a, key, value) ==
  [k \in (DOMAIN a) \cup {key} |-> IF k = key THEN value ELSE a[k]]

\* f"{article.get('title', '')} {article.get('summary', '')}"
ArticleText(a) == Get(a, "title", << >>) \o << " " >> \o Get(a, "summary", << >>)

\* the cross-source bonus of score_articles: min(1.0 + 0.15 * (n - 1), 2.0)
CrossSource(num_sources) ==
  RatMin(Rat(100 + 15 * (num_sources - 1), 100), Rat(2, 1))

\* the bonus without the cap
BonusUncapped(num_sources) == Rat(100 + 15 * (num_sources - 1), 100)

\* the cross-source bonus of get_trending_topics
TopicCrossSource(num_sources) ==
  RatMin(Rat(100 + 15 * (num_sources - 1), 100), Rat(2, 1))

\* the weights with every step one hour late
TemporalWeightLate(pub_date, now) ==
  IF pub_date.t # "datetime" THEN [exc |-> "TypeError", w |-> Rat(0, 1)]
  ELSE
    LET hours_old == now - pub_date.v
    IN  [exc |-> "none",
         w   |-> IF hours_old <= 1 THEN Rat(100, 100)
                 ELSE IF hours_old <= 6 THEN Rat(85, 100)
                 ELSE IF hours_old <= 12 THEN Rat(70, 100)
                 ELSE IF hours_old <= 24 THEN Rat(50, 100)
                 ELSE Rat(30, 100)]

\* _temporal_weight(pub_date) at time now; TypeError when pub_date is not a
\* datetime
TemporalWeight(pub_date, now) ==
  IF pub_date.t # "datetime" THEN [exc |-> "TypeError", w |-> Rat(0, 1)]
  ELSE
    LET hours_old == now - pub_date.v
    IN  [exc |-> "none",
         w   |-> IF hours_old < 1 THEN Rat(100, 100)
                 ELSE IF hours_old < 6 THEN Rat(85, 100)
                 ELSE IF hours_old < 12 THEN Rat(70, 100)
                 ELSE IF hours_old < 24 THEN Rat(50, 100)
                 ELSE Rat(30, 100)]

\* math.log10 of a power of ten (the totals of the model make 1 + total one)
Log10(x) == CHOOSE k \in 0..9 : 10 ^ k = x

\* the factor of a weighted total
FactorOf(total) ==
  IF total = 0 THEN Rat(1, 1) ELSE Rat(10 + Log10(1 + total) * 2, 10)

\* _engagement_factor(article), given article.get("engagement")
FactorFor(engagement) ==
  IF engagement.t = "NoneType" \/ engagement.v = << >> THEN Rat(1, 1)
  ELSE FactorOf(DictGet(engagement, "likes", PyInt(0)).v
                  + (DictGet(engagement, "retweets", PyInt(0)).v * 2)
                  + DictGet(engagement, "replies", PyInt(0)).v
                  + DictGet(engagement, "upvotes", PyInt(0)).v)

EngagementFactor(a) == FactorFor(Get(a, "engagement", PyNone))

(***************************************************************************)
(* score_articles                                                          *)
(***************************************************************************)
NoSources == [t \in {} |-> {}]

\* the <<term, source>> mentions of one article
MentionsOf(terms, source) == [k \in 1..Len(terms) |-> <<terms[k], source>>]

\* the <<term, source>> mentions of the articles, in the order in which the
\* two loops of phase 1 meet them
RECURSIVE Mentions(_)
Mentions(arts) ==
  IF arts = << >> THEN << >>
  ELSE MentionsOf(ExtractTerms(ArticleText(Head(arts))),
                  Get(Head(arts), "source", ""))
         \o Mentions(Tail(arts))

\* self.current_mentions after `self.current_mentions[term] += 1` for every
\* mention: a counted term keeps its place, a new term is added at its first
\* mention
CountMentions(mentions, found) ==
  LET n        == Len(found)
      Times(t) == Cardinality({ k \in 1..n : found[k][1] = t })
      known    == { mentions[i][1] : i \in 1..Len(mentions) }
      indexed  == [k \in 1..n |-> <<k, found[k][1]>>]
      fresh    == SelectSeq(indexed,
                    LAMBDA m : /\ m[2] \notin known
                               /\ \A j \in 1..(m[1] - 1) : found[j][1] # m[2])
  IN  [i \in 1..Len(mentions) |->
         <<mentions[i][1], mentions[i][2] + Times(mentions[i][1])>>]
        \o [i \in 1..Len(fresh) |-> <<fresh[i][2], Times(fresh[i][2])>>]

\* self.current_sources after `self.current_sources[term].add(source)` for
\* every mention
CollectSources(sources, found) ==
  LET n == Len(found)
  IN  [t \in (DOMAIN sources) \cup { found[k][1] : k \in 1..n } |->
         (IF t \in DOMAIN sources THEN sources[t] ELSE {})
           \cup { found[k][2] : k \in { j \in 1..n : found[j][1] = t } }]

\* phase 2 without `if count < 2: continue`
TermScoresOfAll(mentions, sources, hist) ==
  [term \in { mentions[i][1] : i \in 1..Len(mentions) } |->
     RatMul(CalculateVelocity(hist, term, CounterGet(mentions, term)),
            CrossSource(Cardinality(sources[term])))]

\* phase 2: term_scores, a dict over the terms with count >= 2
TermScores(mentions, sources, hist) ==
  LET scored == { i \in 1..Len(mentions) : ~ (mentions[i][2] < 2) }
  IN  [term \in { mentions[i][1] : i \in scored } |->
         RatMul(CalculateVelocity(hist, term, CounterGet(mentions, term)),
                CrossSource(Cardinality(sources[term])))]

\* max((term_scores.get(t, 0.0) for t in terms), default=0.0)
RECURSIVE MaxTermScore(_, _)
MaxTermScore(terms, term_scores) ==
  IF terms = << >> THEN Rat(0, 1)
  ELSE RatMax(IF Head(terms) \in DOMAIN term_scores
                THEN term_scores[Head(terms)] ELSE Rat(0, 1),
              MaxTermScore(Tail(terms), term_scores))

\* the score without the engagement factor
ScoredUnengaged(best, engage, temporal, tieUp) ==
  [exc   |-> temporal.exc,
   score |-> Round2(RatMul(best, temporal.w), tieUp)]

\* article["trend_score"] of one article, or the exception raised
Scored(best, engage, temporal, tieUp) ==
  [exc   |-> temporal.exc,
   score |-> Round2(RatMul(RatMul(best, engage), temporal.w), tieUp)]

\* phase 3 leaving an article that already carries a score above 0 as it is
ArticleScoreKept(a, terms, term_scores, now, tieUp) ==
  IF Get(a, "trend_score", 0) > 0
    THEN [exc |-> "none", score |-> a.trend_score]
    ELSE Scored(MaxTermScore(terms, term_scores),
                EngagementFactor(a),
                TemporalWeight(Get(a, "published", PyDatetime(now)), now),
                tieUp)

\* phase 3 for one article, given its terms
ArticleScore(a, terms, term_scores, now, tieUp) ==
  Scored(MaxTermScore(terms, term_scores),
         EngagementFactor(a),
         TemporalWeight(Get(a, "published", PyDatetime(now)), now),
         tieUp)

\* phase 3, given the outcome res[i] of scoring article i alone: the articles
\* before the first failure carry their score
ScoredUntil(arts, res) ==
  LET failed == { i \in 1..Len(res) : res[i].exc # "none" }
  IN  [exc      |-> IF failed = {} THEN "none"
                    ELSE res[CHOOSE i \in failed : \A j \in failed : i <= j].exc,
       articles |-> [i \in 1..Len(arts) |->
                       IF \A j \in failed : i < j
                         THEN SetItem(arts[i], "trend_score", res[i].score)
                         ELSE arts[i]]]

\* phase 3: every article gets its trend_score, in order, until an exception
\* leaves the loop
ScoreEach(arts, term_scores, now, tieUp) ==
  ScoredUntil(arts,
              [i \in 1..Len(arts) |->
                 ArticleScore(arts[i], ExtractTerms(ArticleText(arts[i])),
                              term_scores, now, tieUp)])

\* the place of item i in sorted(keys, reverse=True): after every greater
\* key and after every equal key that comes before it (the sort is stable)
PlaceDesc(keys, i) ==
  1 + Cardinality({ j \in 1..Len(keys) :
                      keys[j] > keys[i] \/ (keys[j] = keys[i] /\ j < i) })

\* sorted(articles, key=trend_score, reverse=True): a copy
SortByScore(arts) ==
  LET keys == [i \in 1..Len(arts) |-> arts[i].trend_score]
  IN  [k \in 1..Len(arts) |->
         arts[CHOOSE i \in 1..Len(arts) : PlaceDesc(keys, i) = k]]

\* phase 4: trending_threshold, in hundredths
ThresholdOf(sorted_articles) ==
  IF Len(sorted_articles) >= TOP_TRENDING_COUNT
    THEN sorted_articles[(TOP_TRENDING_COUNT - 1) + 1].trend_score
    ELSE 50

TrendingThreshold(arts) == ThresholdOf(SortByScore(arts))

Max(a, b) == IF b > a THEN b ELSE a

\* phase 4 without the floor of 0.5
TaggedByRank(arts, trending_threshold) ==
  [i \in 1..Len(arts) |->
     SetItem(arts[i], "is_trending",
             arts[i].trend_score >= trending_threshold)]

\* phase 4: tag every article
Tagged(arts, trending_threshold) ==
  [i \in 1..Len(arts) |->
     SetItem(arts[i], "is_trending",
             arts[i].trend_score >= Max(trending_threshold, 50))]

\* phase 4 tagging the sorted list and handing that back
TagSorted(arts) == Tagged(SortByScore(arts), TrendingThreshold(arts))

TagTrending(arts) == Tagged(arts, TrendingThreshold(arts))

\* what score_articles leaves: the exception if any, the counters, the
\* term scores and the articles (tagged unless phase 3 raised)
ScoreOutcome(counts, srcs, scores, p3) ==
  [exc         |-> p3.exc,
   mentions    |-> counts,
   sources     |-> srcs,
   term_scores |-> scores,
   articles    |-> IF p3.exc = "none" THEN TagTrending(p3.articles)
                   ELSE p3.articles]

\* phases 3 and 4
ScoreWith(counts, srcs, scores, arts, now, tieUp) ==
  ScoreOutcome(counts, srcs, scores, ScoreEach(arts, scores, now, tieUp))

\* phases 2 to 4
ScoreCounted(counts, srcs, hist, arts, now, tieUp) ==
  ScoreWith(counts, srcs, TermScores(counts, srcs, hist), arts, now, tieUp)

\* phases 1 to 4, given the mentions found in the articles
ScoreFound(mentions, sources, found, hist, arts, now, tieUp) ==
  ScoreCounted(CountMentions(mentions, found), CollectSources(sources, found),
               hist, arts, now, tieUp)

\* score_articles(articles) on a scorer with the given counters and history:
\* the counters and the articles when the call ends, and the exception that
\* leaves it, if any
ScoreArticlesResult(mentions, sources, hist, arts, now, tieUp) ==
  ScoreFound(mentions, sources, Mentions(arts), hist, arts, now, tieUp)

(***************************************************************************)
(* get_trending_topics                                                     *)
(***************************************************************************)
\* the direction with the thresholds included: "up" from 1.5, "stable" from
\* 0.8
DirectionInclusive(hist_avg, velocity) ==
  IF hist_avg.n = 0 THEN "new"
  ELSE IF RatLeq(Rat(15, 10), velocity) THEN "up"
  ELSE IF RatLeq(Rat(8, 10), velocity) THEN "stable"
  ELSE "down"

\* the direction of a term with the given velocity
Direction(hist_avg, velocity) ==
  IF hist_avg.n = 0 THEN "new"
  ELSE IF RatLess(Rat(15, 10), velocity) THEN "up"
  ELSE IF RatLess(Rat(8, 10), velocity) THEN "stable"
  ELSE "down"

\* list(sources)[:5]: a set has no defined order, so any SAMPLE_SOURCES of
\* them (all when there are no more than that)
Samples(srcs) ==
  IF Cardinality(srcs) <= SAMPLE_SOURCES THEN {srcs}
  ELSE { s \in SUBSET srcs : Cardinality(s) = SAMPLE_SOURCES }

\* the possible samples of the terms that have more than SAMPLE_SOURCES
\* sources: one sample for each
RECURSIVE ChoicesOf(_, _)
ChoicesOf(mentions, sources) ==
  IF mentions = << >> THEN { NoSources }
  ELSE { (Head(mentions)[1] :> s) @@ f :
           s \in Samples(sources[Head(mentions)[1]]),
           f \in ChoicesOf(Tail(mentions), sources) }

\* the possible samples: one sample of its sources for every counted term,
\* which is all its sources when they are no more than SAMPLE_SOURCES
SampleChoices(mentions, sources) ==
  LET few(p) == Cardinality(sources[p[1]]) <= SAMPLE_SOURCES
      all    == [t \in { mentions[i][1] : i \in { j \in DOMAIN mentions :
                                                   few(mentions[j]) } } |->
                   sources[t]]
  IN  { f @@ all :
          f \in ChoicesOf(SelectSeq(mentions, LAMBDA p : ~ few(p)), sources) }

\* the term_data entry of a term, given its velocity
TopicFor(term, count, velocity, hist_avg, num_sources, tieUp, sample) ==
  [term        |-> term,
   mentions    |-> count,
   sources     |-> sample[term],
   num_sources |-> num_sources,
   velocity    |-> Round2(velocity, tieUp),
   direction   |-> Direction(hist_avg, velocity),
   score       |-> Round2(RatMul(velocity, TopicCrossSource(num_sources)),
                          tieUp)]

TopicOf(term, count, sources, hist, tieUp, sample) ==
  TopicFor(term, count, CalculateVelocity(hist, term, count),
           HistoricalAvg(hist, term), Cardinality(sources[term]), tieUp,
           sample)

\* the terms of most_common(100) counted twice or more, whatever their
\* velocity
TopicTermsCounted(top, hist) == SelectSeq(top, LAMBDA p : ~ (p[2] < 2))

\* the terms of most_common(100) counted twice or more with a velocity of at
\* least 0.5
TopicTermsLenient(top, hist) ==
  SelectSeq(top,
    LAMBDA p : /\ ~ (p[2] < 2)
               /\ ~ RatLess(CalculateVelocity(hist, p[1], p[2]), Rat(1, 2)))

\* the terms of most_common(100) that are not skipped
TopicTerms(top, hist) ==
  SelectSeq(top,
    LAMBDA p : /\ ~ (p[2] < 2)
               /\ ~ RatLess(CalculateVelocity(hist, p[1], p[2]), Rat(1, 1)))

\* the entries of the kept terms
TopicsOf(kept, sources, hist, tieUp, sample) ==
  [i \in 1..Len(kept) |->
     TopicOf(kept[i][1], kept[i][2], sources, hist, tieUp, sample)]

\* term_data.values(): the entries of the terms of most_common(100) that
\* are not skipped, in that order
TermData(mentions, sources, hist, tieUp, sample) ==
  TopicsOf(TopicTerms(MostCommon(mentions, TOPIC_TERMS), hist), sources, hist,
           tieUp, sample)

\* sorted(term_data.values(), key=score, reverse=True)
SortTopics(items) ==
  LET keys == [i \in 1..Len(items) |-> items[i].score]
  IN  [k \in 1..Len(items) |->
         items[CHOOSE i \in 1..Len(items) : PlaceDesc(keys, i) = k]]

\* get_trending_topics(articles): the argument is not used
TrendingTopics(mentions, sources, hist, tieUp, sample) ==
  Prefix(SortTopics(TermData(mentions, sources, hist, tieUp, sample)),
         TOP_TRENDING_COUNT)

\* get_trending_topics returning at once for an empty list of articles
TopicsOfGiven(arts, mentions, sources, hist, tieUp, sample) ==
  IF arts = << >> THEN << >>
  ELSE TrendingTopics(mentions, sources, hist, tieUp, sample)

\* get_trending_topics(articles) with its argument
TopicsGiven(arts, mentions, sources, hist, tieUp, sample) ==
  TrendingTopics(mentions, sources, hist, tieUp, sample)

(***************************************************************************)
(* Bounds of the model                                                     *)
(***************************************************************************)
\* score_articles calls in a behaviour
MaxPasses == 2

\* save_history calls in a behaviour
MaxSaves == 1

\* clock advances in a behaviour
MaxTicks == 1

\* copies of one article in the large batches
BulkCopies == 15

\* articles of the wide batch, eight acronyms each
WideArticles == 26

\* sources of a term in a direct evaluation of the cross-source bonus
MaxSources == 21

\* the time of the first state, in hours
StartClock == 336

\* titles of the batch of many topics, eight acronyms each
TopicTitles == 13

\* the oldest article of the direct calls of _temporal_weight, in hours
MaxAge == 25

\* the clock advances by an hour or by the length of the history window
TickHours == {1, MaxHistoryHours}

(***************************************************************************)
(* Inputs: articles, batches, history files                                *)
(***************************************************************************)
TermGPT == << "G", "P", "T" >>

TermRust == << "R", "u", "s", "t" >>

TermAI == << "A", "I" >>

\* an article of a feed, published age hours before now
FeedArticle(title, source, now, age) ==
  [title       |-> title,
   summary     |-> << >>,
   source      |-> source,
   published   |-> PyDatetime(now - age),
   engagement  |-> PyNone,
   is_trending |-> FALSE,
   trend_score |-> 0]

\* "GPT-5 out", just published
ArtGptFresh(now) ==
  FeedArticle(<< "G", "P", "T", "-", "5", " ", "o", "u", "t" >>, "rss", now, 0)

\* "GPT-5 out", published 30 hours ago by another source
ArtGptOld(now) ==
  FeedArticle(<< "G", "P", "T", "-", "5", " ", "o", "u", "t" >>, "reddit",
              now, 30)

\* "Rust tips", published 2 hours ago
ArtRust(now) ==
  FeedArticle(<< "R", "u", "s", "t", " ", "t", "i", "p", "s" >>, "reddit",
              now, 2)

\* "hello": no term
ArtBlank(now) == FeedArticle(<< "h", "e", "l", "l", "o" >>, "rss", now, 7)

\* a tweet "AI and GPT" with engagement: title and summary are the same text
ArtTweet(now) ==
  [title       |-> << "A", "I", " ", "a", "n", "d", " ", "G", "P", "T" >>,
   summary     |-> << "A", "I", " ", "a", "n", "d", " ", "G", "P", "T" >>,
   source      |-> "twitter",
   published   |-> PyDatetime(now - 13),
   engagement  |-> PyDict(<< <<"likes", PyInt(5)>>, <<"retweets", PyInt(2)>>,
                             <<"replies", PyInt(0)>> >>),
   is_trending |-> FALSE,
   trend_score |-> 0]

\* n copies of article a
Copies(a, n) == [i \in 1..n |-> a]

\* the batches handed to score_articles at time now
BatchPool(now) ==
  << << >>,
     << ArtGptFresh(now), ArtRust(now), ArtGptOld(now) >>,
     Copies(ArtGptFresh(now), BulkCopies) \o << ArtGptOld(now), ArtRust(now) >>,
     << ArtTweet(now) >> \o Copies(ArtBlank(now), BulkCopies) >>

Consonants ==
  << "B", "C", "D", "F", "G", "H", "J", "K", "L", "M", "N", "P", "Q", "R",
     "S", "T" >>

\* acronym number i, of two consonants
WideTerm(i) == << Consonants[((i \div 16) % 16) + 1], Consonants[(i % 16) + 1] >>

\* eight acronyms that no other title has
WideTitle(a) ==
  WideTerm(8 * a) \o << " " >> \o WideTerm(8 * a + 1) \o << " " >>
    \o WideTerm(8 * a + 2) \o << " " >> \o WideTerm(8 * a + 3) \o << " " >>
    \o WideTerm(8 * a + 4) \o << " " >> \o WideTerm(8 * a + 5) \o << " " >>
    \o WideTerm(8 * a + 6) \o << " " >> \o WideTerm(8 * a + 7)

\* article a of the wide batch: every second article has its first acronym
\* once more, in the summary
ArtWide(a, now) ==
  [FeedArticle(WideTitle(a), "rss", now, 3)
     EXCEPT !.summary = IF a % 2 = 0 THEN WideTerm(8 * a) ELSE << >>]

\* more than SNAPSHOT_TERMS terms in one batch
WideBatch(now) == [a \in 1..WideArticles |-> ArtWide(a, now)]

\* the batches of the builds that write the history file
FeedPool(now) ==
  << << ArtGptFresh(now), ArtRust(now), ArtGptOld(now) >>,
     WideBatch(now) >>

\* the article without the key: a dict that was built without it
DelItem(a, key) == [k \in (DOMAIN a) \ {key} |-> a[k]]

\* "GPT-5 out" from a feed that sets no engagement key
ArtNoEngagement(now) == DelItem(ArtGptFresh(now), "engagement")

\* "GPT-5 out", 30 hours old by its source, with no published key
ArtNoPublished(now) == DelItem(ArtGptOld(now), "published")

\* "GPT-5 out" with engagement {}
ArtEmptyEngagement(now) ==
  [ArtGptFresh(now) EXCEPT !.engagement = PyDict(<< >>)]

\* "GPT-5 out" with published None: the date of the entry could not be parsed
ArtNonePublished(now) == [ArtGptOld(now) EXCEPT !.published = PyNone]

\* "GPT-5 out" with published ""
ArtEmptyPublished(now) == [ArtGptOld(now) EXCEPT !.published = PyStr(<< >>)]

\* batches of articles that lack optional fields
SparseBatches(now) ==
  << << ArtNoEngagement(now), ArtNoPublished(now) >>,
     << ArtTweet(now), ArtEmptyEngagement(now), ArtNoPublished(now),
        ArtRust(now) >>,
     << ArtGptFresh(now), ArtNonePublished(now) >>,
     << ArtEmptyPublished(now), ArtGptFresh(now) >> >>

TermGPT5 == << "G", "P", "T", "-", "5" >>

\* "Why GPT-5 matters", 7 hours old
ArtGptWhy(now) ==
  FeedArticle(<< "W", "h", "y", " " >> \o TermGPT5
                \o << " ", "m", "a", "t", "t", "e", "r", "s" >>,
              "reddit", now, 7)

\* "OpenAI GPT-5 ships", 13 hours old, with 9 upvotes
ArtGptShips(now) ==
  [FeedArticle(<< "O", "p", "e", "n", "A", "I", " " >> \o TermGPT5
                 \o << " ", "s", "h", "i", "p", "s" >>,
               "reddit", now, 13)
     EXCEPT !.engagement = PyDict(<< <<"upvotes", PyInt(9)>> >>)]

\* three articles of two sources with "GPT-5" in the title
GptBatches(now) ==
  << << ArtGptFresh(now), ArtGptOld(now),
        [ArtGptOld(now) EXCEPT !.published = PyDatetime(now - 2)] >>,
     << [ArtGptFresh(now) EXCEPT !.published = PyDatetime(now - 2)],
        ArtGptWhy(now), ArtGptShips(now) >> >>

\* "GPT-5 out" as six sources have it
SixSources(now) ==
  << FeedArticle(TermGPT5, "rss", now, 0),
     FeedArticle(TermGPT5, "reddit", now, 0),
     FeedArticle(TermGPT5, "twitter", now, 0),
     FeedArticle(TermGPT5, "blog", now, 0),
     FeedArticle(TermGPT5, "news", now, 0),
     FeedArticle(TermGPT5, "wire", now, 0) >>

\* title a of the batch of many topics, from the given source
ArtTopic(a, source, now) == FeedArticle(WideTitle(a), source, now, 3)

\* every title twice, an odd one from two sources, and the second title
\* twice more from two further sources: more than TOPIC_TERMS terms counted
\* twice or more, and more than TOP_TRENDING_COUNT topics
ManyTopics(now) ==
  [j \in 1..(2 * TopicTitles) |->
     ArtTopic((j + 1) \div 2,
              IF j % 2 = 0 /\ ((j + 1) \div 2) % 2 = 1 THEN "reddit" ELSE "rss",
              now)]
    \o << ArtTopic(2, "reddit", now), ArtTopic(2, "twitter", now) >>

\* batches for the list of topics: one article, six sources, one term three
\* times, many topics
TopicBatches(now) ==
  << << ArtGptFresh(now) >>, SixSources(now),
     << ArtRust(now), ArtRust(now), ArtRust(now) >>, ManyTopics(now) >>

\* the batches of the scoring cases
CasePool(now) ==
  SparseBatches(now) \o GptBatches(now) \o TopicBatches(now)

\* the terms and the counts of the direct calls of _calculate_velocity
CallTerms == { TermGPT, TermRust, TermAI, << "Z", "K" >> }

CallCounts == { 0, 1, 2, 3, 4, 5, 30, 31, 40, 41, 3000, 4000 }

\* a snapshot object of the history file
JSnapshot(time, members) ==
  JObject(<< <<"timestamp", JString(IsoFormat(time))>>,
             <<"mentions", JObject(members)>> >>)

\* a history written by earlier runs: a snapshot older than the window, one
\* at its edge and one of the day before
FileThreeRuns ==
  FileJson(JArray(<<
    JSnapshot(StartClock - MaxHistoryHours - 1,
              << <<TermGPT, JNumber(40)>>, <<TermAI, JNumber(9)>> >>),
    JSnapshot(StartClock - MaxHistoryHours,
              << <<TermGPT, JNumber(2)>>, <<TermRust, JNumber(4)>> >>),
    JSnapshot(StartClock - HoursPerDay, << <<TermGPT, JNumber(4)>> >>) >>))

\* the contents of the history file when the first process starts
FilePool ==
  << FileMissing,
     FileUnparseable,
     FileJson(JArray(<< >>)),
     FileThreeRuns,
     \* 5
     FileJson(JNumber(5)),
     \* [1]
     FileJson(JArray(<< JNumber(1) >>)),
     \* {"a": 1}
     FileJson(JObject(<< <<"a", JNumber(1)>> >>)),
     \* [{"timestamp": 5, "mentions": {}}]
     FileJson(JArray(<< JObject(<< <<"timestamp", JNumber(5)>>,
                                   <<"mentions", JObject(<< >>)>> >>) >>)),
     \* [{"mentions": {"GPT": 3}}]
     FileJson(JArray(<< JObject(<< <<"mentions",
                                     JObject(<< <<TermGPT, JNumber(3)>> >>)>>
                                >>) >>)) >>

(***************************************************************************)
(* State                                                                   *)
(***************************************************************************)
VARIABLES
  clock,             \* datetime.now(timezone.utc), in hours
  file,              \* the content of the history file
  pc,                \* "none": no scorer yet; "ready": a TrendScorer exists;
                     \* "saving": save_history has opened the file;
                     \* "crashed": an exception has ended the process;
                     \* "aborted": the process was stopped
  raised,            \* the exception that ended the process
  history,           \* self.history
  current_mentions,  \* self.current_mentions
  current_sources,   \* self.current_sources
  articles,          \* the list last given to score_articles
  term_scores,       \* term_scores of the last score_articles
  topics,            \* the list last returned by get_trending_topics
  tie_up,            \* how round() settles an exact tie
  passes,            \* score_articles calls so far
  saves,             \* save_history calls so far
  ticks,             \* clock advances so far
  call,              \* the last direct call of a helper of the scorer and
                     \* its result
  loaded,            \* what self.history was loaded from, while it is as
                     \* loaded
  before,            \* the counters and the clock at the last score_articles
  fresh,             \* topics was computed after the last score_articles
  committed,         \* the last content written to the file in full
  saved              \* the last save_history: counters, history and time

vars ==
  << clock, file, pc, raised, history, current_mentions, current_sources,
     articles, term_scores, topics, tie_up, passes, saves, ticks, call,
     loaded, before, fresh, committed, saved >>

NoCall == [fn |-> "none", term |-> << >>, arg |-> 0, result |-> Rat(0, 1)]

NoScores == [t \in {} |-> Rat(0, 1)]

NoLoad == [done |-> FALSE, file |-> FileMissing, now |-> 0]

NoBefore ==
  [done |-> FALSE, batch |-> 0, mentions |-> << >>, sources |-> NoSources,
   now |-> 0]

NoSave == [done |-> FALSE, mentions |-> << >>, history |-> << >>, now |-> 0]

\* the state before any process has run, for a given history file
Start(f) ==
  /\ clock = StartClock
  /\ file = f
  /\ pc = "none"
  /\ raised = "none"
  /\ history = << >>
  /\ current_mentions = << >>
  /\ current_sources = NoSources
  /\ articles = << >>
  /\ term_scores = NoScores
  /\ topics = << >>
  /\ tie_up \in BOOLEAN
  /\ passes = 0
  /\ saves = 0
  /\ ticks = 0
  /\ call = NoCall
  /\ loaded = NoLoad
  /\ before = NoBefore
  /\ fresh = FALSE
  /\ committed = f
  /\ saved = NoSave

\* the build starts with no history file or with the history of earlier runs
Init == Start(FileMissing) \/ Start(FileThreeRuns)

(***************************************************************************)
(* Operations                                                              *)
(***************************************************************************)
\* the scorer built by __init__ when _load_history ends as r
Constructed(r) ==
  /\ pc' = IF r.raised = "none" THEN "ready" ELSE "crashed"
  /\ raised' = r.raised
  /\ history' = r.history
  /\ current_mentions' = << >>
  /\ current_sources' = NoSources

\* TrendScorer(history_file): __init__ and _load_history, in a new process
NewScorer ==
  /\ pc # "saving"
  /\ Constructed(LoadHistory(file, clock))
  /\ articles' = << >>
  /\ term_scores' = NoScores
  /\ topics' = << >>
  /\ loaded' = [done |-> TRUE, file |-> file, now |-> clock]
  /\ before' = NoBefore
  /\ fresh' = FALSE
  /\ call' = NoCall
  /\ UNCHANGED << clock, file, tie_up, passes, saves, ticks, committed, saved >>

\* the state that score_articles leaves when it ends as r
ScoredAs(r) ==
  /\ current_mentions' = r.mentions
  /\ current_sources' = r.sources
  /\ articles' = r.articles
  /\ term_scores' = r.term_scores
  /\ pc' = IF r.exc = "none" THEN "ready" ELSE "crashed"
  /\ raised' = r.exc

\* score_articles(arts), arts being batch b of the pool
Score(b, arts) ==
  /\ pc = "ready"
  /\ passes < MaxPasses
  /\ ScoredAs(ScoreArticlesResult(current_mentions, current_sources, history,
                                  arts, clock, tie_up))
  /\ passes' = passes + 1
  /\ before' = [done |-> TRUE, batch |-> b, mentions |-> current_mentions,
                sources |-> current_sources, now |-> clock]
  /\ fresh' = FALSE
  /\ UNCHANGED << clock, file, history, topics, tie_up, saves, ticks, call,
                  loaded, committed, saved >>

\* score_articles on a batch that was just fetched, or once more on the list
\* it has just scored
ScoreArticles ==
  \E b \in DOMAIN BatchPool(clock), again \in BOOLEAN :
    /\ again => (before.done /\ before.batch = b /\ before.now = clock)
    /\ Score(b, IF again THEN articles ELSE BatchPool(clock)[b])

\* get_trending_topics(articles)
GetTrendingTopics ==
  /\ pc = "ready"
  /\ \E sample \in SampleChoices(current_mentions, current_sources) :
       topics' = TrendingTopics(current_mentions, current_sources, history,
                                tie_up, sample)
  /\ fresh' = before.done
  /\ UNCHANGED << clock, file, pc, raised, history, current_mentions,
                  current_sources, articles, term_scores, tie_up, passes,
                  saves, ticks, call, loaded, before, committed, saved >>

\* save_history up to open(self.history_file, "w"): the snapshot is
\* appended, the list pruned and the file truncated
SaveOpen ==
  /\ pc = "ready"
  /\ saves < MaxSaves
  /\ history' = SavedHistory(history, current_mentions, clock)
  /\ file' = FileUnparseable
  /\ pc' = "saving"
  /\ saves' = saves + 1
  /\ saved' = [done |-> FALSE, mentions |-> current_mentions,
               history |-> history', now |-> clock]
  /\ loaded' = [loaded EXCEPT !.done = FALSE]
  /\ UNCHANGED << clock, raised, current_mentions, current_sources, articles,
                  term_scores, topics, tie_up, passes, ticks, call, before,
                  fresh, committed >>

\* save_history from json.dump to the end of the with block
SaveDump ==
  /\ pc = "saving"
  /\ file' = FileJson(JsonDump(PyList(history)))
  /\ committed' = file'
  /\ pc' = "ready"
  /\ saved' = [saved EXCEPT !.done = TRUE]
  /\ UNCHANGED << clock, raised, history, current_mentions, current_sources,
                  articles, term_scores, topics, tie_up, passes, saves, ticks,
                  call, loaded, before, fresh >>

\* the build is stopped: what the process held in memory is gone
Abort ==
  /\ pc \in {"ready", "saving"}
  /\ pc' = "aborted"
  /\ history' = << >>
  /\ current_mentions' = << >>
  /\ current_sources' = NoSources
  /\ articles' = << >>
  /\ term_scores' = NoScores
  /\ topics' = << >>
  /\ before' = NoBefore
  /\ fresh' = FALSE
  /\ loaded' = [loaded EXCEPT !.done = FALSE]
  /\ call' = NoCall
  /\ UNCHANGED << clock, file, raised, tie_up, passes, saves, ticks, committed,
                  saved >>

\* time passes
Tick ==
  /\ ticks < MaxTicks
  /\ \E d \in TickHours : clock' = clock + d
  /\ ticks' = ticks + 1
  /\ UNCHANGED << file, pc, raised, history, current_mentions,
                  current_sources, articles, term_scores, topics, tie_up,
                  passes, saves, call, loaded, before, fresh, committed,
                  saved >>

\* score_articles as main() calls it: once on a scorer, on the batch fetched;
\* the wide batch is one that the first build may fetch
ScoreFeed ==
  \E b \in DOMAIN FeedPool(clock) :
    /\ ~ before.done
    /\ b = Len(FeedPool(clock)) => passes = 0
    /\ Score(Len(BatchPool(clock)) + b, FeedPool(clock)[b])

\* a direct call of a helper leaves the scorer as it is
Called(c) ==
  /\ call' = c
  /\ UNCHANGED << clock, file, pc, raised, history, current_mentions,
                  current_sources, articles, term_scores, topics, tie_up,
                  passes, saves, ticks, loaded, before, fresh, committed,
                  saved >>

\* self._calculate_velocity(term, current_count)
CallVelocity ==
  \E term \in CallTerms, current_count \in CallCounts :
    /\ pc = "ready"
    /\ Called([fn     |-> "_calculate_velocity",
               term   |-> term,
               arg    |-> current_count,
               result |-> CalculateVelocity(history, term, current_count)])

\* self._get_historical_avg(term)
CallHistoricalAvg ==
  \E term \in CallTerms :
    /\ pc = "ready"
    /\ Called([fn     |-> "_get_historical_avg",
               term   |-> term,
               arg    |-> 0,
               result |-> HistoricalAvg(history, term)])

\* the cross-source bonus of score_articles for a term of num_sources sources
CallCrossSource ==
  \E num_sources \in 1..MaxSources :
    /\ pc = "ready"
    /\ Called([fn     |-> "score_articles",
               term   |-> << >>,
               arg    |-> num_sources,
               result |-> CrossSource(num_sources)])

\* the cross-source bonus of get_trending_topics
CallTopicCrossSource ==
  \E num_sources \in 1..MaxSources :
    /\ pc = "ready"
    /\ Called([fn     |-> "get_trending_topics",
               term   |-> << >>,
               arg    |-> num_sources,
               result |-> TopicCrossSource(num_sources)])

\* the number of case b among the batches
CaseNumber(b) == Len(BatchPool(clock)) + Len(FeedPool(clock)) + b

\* score_articles on a batch of the scoring cases; the batch of many topics
\* is the only batch of its scorer
ScoreCase ==
  \E b \in DOMAIN CasePool(clock) :
    /\ pc = "ready"
    /\ b = Len(CasePool(clock)) => passes = 0
    /\ before.done => before.batch # CaseNumber(Len(CasePool(clock)))
    /\ Score(CaseNumber(b), CasePool(clock)[b])

\* one build after another: score, list the topics, save
Next ==
  \/ NewScorer
  \/ ScoreArticles
  \/ GetTrendingTopics
  \/ SaveOpen
  \/ SaveDump

Spec == Init /\ [][Next]_vars

\* the history file over time: builds that may be stopped, days that pass
StoreNext ==
  \/ NewScorer
  \/ ScoreFeed
  \/ SaveOpen
  \/ SaveDump
  \/ Abort
  \/ Tick

\* nothing that the store does is rounded: one way of settling ties is enough
StoreInit ==
  /\ Init
  /\ tie_up

SpecStore == StoreInit /\ [][StoreNext]_vars

(***************************************************************************)
(* A build: main() of build.py, one run after the other                    *)
(***************************************************************************)
\* `scorer = TrendScorer(...)` of a run: the first run, or the run after one
\* that has ended
BuildStart ==
  /\ pc = "none" \/ (pc = "ready" /\ saved.done /\ ~ loaded.done)
  /\ NewScorer

\* `trending_topics = scorer.get_trending_topics(all_articles)`, the
\* statement after score_articles
BuildTopics ==
  /\ loaded.done
  /\ before.done
  /\ ~ fresh
  /\ GetTrendingTopics

\* scorer.save_history() called before the scoring
BuildSaveEarly ==
  /\ loaded.done
  /\ SaveOpen

\* `scorer.save_history()`, the last call of the run on the scorer
BuildSave ==
  /\ loaded.done
  /\ fresh
  /\ SaveOpen

BuildNext ==
  \/ BuildStart
  \/ ScoreFeed
  \/ BuildTopics
  \/ BuildSave
  \/ SaveDump
  \/ Tick

SpecBuild == Init /\ [][BuildNext]_vars

\* a scorer built from any content of the history file, and its helpers
\* called one at a time
\* self._temporal_weight(pub_date) for an article published age hours ago,
\* or in an hour
CallTemporalWeight ==
  \E age \in (0 - 1)..MaxAge :
    /\ pc = "ready"
    /\ Called([fn     |-> "_temporal_weight",
               term   |-> << >>,
               arg    |-> age,
               result |-> TemporalWeight(PyDatetime(clock - age), clock).w])

CalcInit == \E i \in DOMAIN FilePool : Start(FilePool[i])

CalcNext ==
  \/ NewScorer
  \/ Tick
  \/ CallVelocity
  \/ CallHistoricalAvg
  \/ CallCrossSource
  \/ CallTopicCrossSource
  \/ CallTemporalWeight

SpecCalc == CalcInit /\ [][CalcNext]_vars

\* scorers that meet the scoring cases
\* the lists handed to get_trending_topics: the scored list, as main() does,
\* no article, an article that was never scored, a batch of six sources
ArgPool(now) ==
  << articles, << >>, << ArtRust(now) >>, SixSources(now) >>

\* get_trending_topics(arts), arts being list a of the pool
ListTopics ==
  \E a \in DOMAIN ArgPool(clock) :
    /\ pc = "ready"
    /\ \E sample \in SampleChoices(current_mentions, current_sources) :
         topics' = TopicsGiven(ArgPool(clock)[a], current_mentions,
                               current_sources, history, tie_up, sample)
    /\ fresh' = before.done
    /\ call' = [fn     |-> "get_trending_topics",
                term   |-> << >>,
                arg    |-> a,
                result |-> Rat(0, 1)]
    /\ UNCHANGED << clock, file, pc, raised, history, current_mentions,
                    current_sources, articles, term_scores, tie_up, passes,
                    saves, ticks, loaded, before, committed, saved >>

\* score_articles on a batch of the cases, the batch of many topics apart
ScoreFew ==
  \E b \in 1..(Len(CasePool(clock)) - 1) :
    /\ pc = "ready"
    /\ Score(CaseNumber(b), CasePool(clock)[b])

TopicsNext ==
  \/ NewScorer
  \/ ScoreFew
  \/ ListTopics

SpecTopics == Init /\ [][TopicsNext]_vars

CasesNext ==
  \/ NewScorer
  \/ ScoreCase
  \/ GetTrendingTopics

SpecCases == Init /\ [][CasesNext]_vars

(***************************************************************************)
(* Properties of the helpers                                               *)
(***************************************************************************)
\* the count of the term in snapshot i of self.history
CountIn(i, term) ==
  DictGet(DictGet(history[i], "mentions", PyDict(<< >>)), term, PyInt(0)).v

\* the term is in no snapshot of self.history
Unseen(term) == \A i \in DOMAIN history : CountIn(i, term) = 0

\* the counts of the term in the first i snapshots, added up
RECURSIVE TotalTo(_, _)
TotalTo(i, term) ==
  IF i = 0 THEN 0 ELSE CountIn(i, term) + TotalTo(i - 1, term)

Total(term) == TotalTo(Len(history), term)

VelocityCalled == call.fn = "_calculate_velocity"

C5_VelocityCapped ==
  VelocityCalled =>
    /\ call.result.n <= 10 * call.result.d
    /\ Total(call.term) > 0 =>
         IF call.arg * Len(history) <= 10 * Total(call.term)
           THEN call.result.n * Total(call.term)
                  = call.arg * Len(history) * call.result.d
           ELSE call.result.n = 10 /\ call.result.d = 1

\* a count of 1000 times the average
C5_Witness ==
  /\ VelocityCalled
  /\ Total(call.term) > 0
  /\ call.arg * Len(history) = 1000 * Total(call.term)
  /\ call.result.n = 10
  /\ call.result.d = 1

BonusCalled == call.fn \in {"score_articles", "get_trending_topics"}

\* C6: in score_articles and in get_trending_topics the cross-source bonus
\* of a term of n sources is min(1.0 + 0.15 * (n - 1), 2.0): 1.0 for one
\* source, never more than 2.0, and exactly 2.0 for 20 sources.
C6_CrossSourceBonus ==
  BonusCalled =>
    /\ 15 * (call.arg - 1) <= 100 =>
         call.result.n * 100 = (100 + 15 * (call.arg - 1)) * call.result.d
    /\ 15 * (call.arg - 1) > 100 => call.result.n = 2 * call.result.d
    /\ call.arg = 1 => call.result.n = call.result.d
    /\ call.result.n <= 2 * call.result.d
    /\ call.arg = 20 => call.result.n = 2 * call.result.d

\* twenty sources in get_trending_topics
C6_Witness ==
  /\ call.fn = "get_trending_topics"
  /\ call.arg = 20
  /\ call.result.n = 2
  /\ call.result.d = 1

\* the member of a JSON object, null when it has none
Member(obj, key) == PairsGet(obj.v, key, JNull)

\* the file is a JSON array of snapshot objects {timestamp: string,
\* mentions: object}
IsSnapshotList(f) ==
  /\ f.kind = "json"
  /\ f.doc.t = "array"
  /\ \A i \in DOMAIN f.doc.v :
       /\ f.doc.v[i].t = "object"
       /\ Member(f.doc.v[i], "timestamp").t = "string"
       /\ Member(f.doc.v[i], "mentions").t = "object"

\* C9: whatever the history file holds, loading never raises: the scorer is
\* constructed, and with an empty history when the file is missing,
\* unparseable or anything but a list of snapshot objects.
C9_LoadNeverRaises ==
  loaded.done =>
    /\ pc = "ready"
    /\ raised = "none"
    /\ ~ IsSnapshotList(loaded.file) => history = << >>

(***************************************************************************)
(* Properties of score_articles and get_trending_topics                    *)
(***************************************************************************)
\* score_articles has returned on a scorer whose history is as loaded
HasScored == pc = "ready" /\ before.done /\ loaded.done

\* trend_score and is_trending of every article
Verdicts(arts) ==
  [i \in DOMAIN arts |-> <<arts[i].trend_score, arts[i].is_trending>>]

\* the score of every topic, in rank order
TopicScores(tops) == [i \in DOMAIN tops |-> tops[i].score]

\* score_articles(B) as the first call on a new scorer with this history, B
\* being the batch last scored
FirstPass ==
  ScoreArticlesResult(<< >>, NoSources, history,
                      BatchPool(before.now)[before.batch], before.now, tie_up)

\* get_trending_topics after that first call
FirstTopics(first) ==
  TrendingTopics(first.mentions, first.sources, history, tie_up,
                 first.sources)

\* the call last made was the first on its scorer, or the one after a first
\* call on the same batch
FirstOrAgain(first) ==
  before.mentions = << >> \/ before.mentions = first.mentions

\* the results are those of the first call
SameAsFirst(first) ==
  /\ Verdicts(articles) = Verdicts(first.articles)
  /\ fresh => TopicScores(topics) = TopicScores(FirstTopics(first))

\* C1: for a fixed batch B and a fixed loaded history, score_articles(B)
\* followed by get_trending_topics(B), on a new scorer or once more on the
\* same scorer, gives every article the trend_score and is_trending, and the
\* topics the scores and the ranking, of the first invocation.
C1_SameOnRepeat == (HasScored /\ FirstOrAgain(FirstPass)) => SameAsFirst(FirstPass)

\* the <<term, source>> mentions of the batch last scored
Found == Mentions(articles)

\* the terms that the batch mentions exactly once
MentionedOnce(found) ==
  { found[k][1] : k \in { j \in DOMAIN found :
       \A i \in DOMAIN found : found[i][1] = found[j][1] => i = j } }

\* the batch without the mentions of the term
Without(found, term) == SelectSeq(found, LAMBDA m : m[1] # term)

\* the trend_score of every article when the last call is made without the
\* term
ScoresWithout(found, term) ==
  [i \in DOMAIN articles |->
     ScoreFound(before.mentions, before.sources, Without(found, term),
                history, articles, before.now, tie_up).articles[i].trend_score]

\* C2: a term that the batch mentions exactly once has no entry in
\* term_scores, is no topic of get_trending_topics, and changes no article's
\* trend_score: without its one occurrence every trend_score is the same.
C2_SingleMentionIgnored ==
  HasScored =>
    \A term \in MentionedOnce(Found) :
      /\ term \notin DOMAIN term_scores
      /\ fresh => \A i \in DOMAIN topics : topics[i].term # term
      /\ ScoresWithout(Found, term)
           = [i \in DOMAIN articles |-> articles[i].trend_score]

\* how many articles score at least c, and how many more than c
AtLeast(c) ==
  Cardinality({ i \in DOMAIN articles : articles[i].trend_score >= c })

MoreThan(c) ==
  Cardinality({ i \in DOMAIN articles : articles[i].trend_score > c })

\* the trend_score of the 15th-highest-scoring article, 0.5 for a batch of
\* fewer than 15
RankCutoff ==
  IF Len(articles) >= 15
    THEN CHOOSE c \in { articles[i].trend_score : i \in DOMAIN articles } :
           MoreThan(c) < 15 /\ AtLeast(c) >= 15
    ELSE 50

\* C3: after score_articles an article is_trending if and only if its
\* trend_score is at least max(cutoff, 0.5), cutoff being the trend_score of
\* the 15th-highest-scoring article when the batch has at least 15 articles
\* and 0.5 otherwise; no article with a trend_score under 0.5 is trending.
C3_TrendingThreshold ==
  (pc = "ready" /\ before.done) =>
    \A i \in DOMAIN articles :
      /\ articles[i].is_trending
           <=> (/\ articles[i].trend_score >= RankCutoff
                /\ articles[i].trend_score >= 50)
      /\ articles[i].trend_score < 50 => ~ articles[i].is_trending

\* a batch of more than 15 articles whose 15th score is under 0.5: the
\* articles at the cutoff are not trending, one above 0.5 is
C3_Witness ==
  /\ pc = "ready"
  /\ before.done
  /\ Len(articles) > 15
  /\ RankCutoff < 50
  /\ \E i \in DOMAIN articles :
       /\ articles[i].trend_score >= RankCutoff
       /\ articles[i].trend_score < 50
       /\ ~ articles[i].is_trending
  /\ \E i \in DOMAIN articles : articles[i].is_trending

(***************************************************************************)
(* Properties of the history file                                          *)
(***************************************************************************)
DigitValue(c) == CHOOSE k \in 0..9 : DigitSeq[k + 1] = c

\* the hour that a timestamp names: three digits of days, "T", two digits
\* of hours
HourOf(ts) ==
  (100 * DigitValue(ts[1]) + 10 * DigitValue(ts[2]) + DigitValue(ts[3])) * 24
    + 10 * DigitValue(ts[5]) + DigitValue(ts[6])

\* the snapshot objects of the file that was loaded
FileSnapshots == loaded.file.doc.v

\* the hour of snapshot i of the file
FileHour(i) == HourOf(Member(FileSnapshots[i], "timestamp").v)

\* the count of the term in snapshot i of the file
FileCount(i, term) ==
  PairsGet(Member(FileSnapshots[i], "mentions").v, term, JNumber(0)).v

\* snapshot i of the file is no older than 7 days at the load
InWindow(i) == FileHour(i) >= loaded.now - 7 * 24

\* the counts of the term in the snapshots of the file that are in the
\* window, among the first i, added up
RECURSIVE WindowTotalTo(_, _)
WindowTotalTo(i, term) ==
  IF i = 0 THEN 0
  ELSE (IF InWindow(i) THEN FileCount(i, term) ELSE 0)
         + WindowTotalTo(i - 1, term)

WindowSize == Cardinality({ i \in DOMAIN FileSnapshots : InWindow(i) })

\* the timestamps of self.history
HistoryStamps ==
  { DictGet(history[k], "timestamp", PyNone).v : k \in DOMAIN history }

\* a scorer whose history is as loaded from a list of snapshots
LoadedSnapshots ==
  loaded.done /\ pc = "ready" /\ IsSnapshotList(loaded.file)

\* C7: a snapshot of the history file whose timestamp is more than 7 days
\* before the load is not in self.history after it, and adds neither a
\* count nor a divisor to a historical average; a snapshot within the 7 days,
\* the boundary included, is retained.
C7_PrunedAtLoad ==
  LoadedSnapshots =>
    /\ \A i \in DOMAIN FileSnapshots :
         IF InWindow(i)
           THEN \E k \in DOMAIN history : history[k] = JsonLoad(FileSnapshots[i])
           ELSE Member(FileSnapshots[i], "timestamp").v \notin HistoryStamps
    /\ Len(history) = WindowSize
    /\ \A term \in CallTerms :
         HistoricalAvg(history, term).n * WindowSize
           = WindowTotalTo(Len(FileSnapshots), term)
               * HistoricalAvg(history, term).d

\* a file with a snapshot an hour too old, which is pruned, and one exactly
\* 7 days old, which is retained
C7_Witness ==
  /\ LoadedSnapshots
  /\ \E i \in DOMAIN FileSnapshots :
       /\ FileHour(i) = loaded.now - 7 * 24 - 1
       /\ Member(FileSnapshots[i], "timestamp").v \notin HistoryStamps
  /\ \E i \in DOMAIN FileSnapshots :
       /\ FileHour(i) = loaded.now - 7 * 24
       /\ history[1] = JsonLoad(FileSnapshots[i])
       /\ HistoricalAvg(history, TermRust).n > 0

\* a scorer that has loaded the file of the last save_history, no later than
\* 7 days after it
LoadedAfterSave ==
  /\ loaded.done
  /\ pc = "ready"
  /\ saved.done
  /\ loaded.file = committed
  /\ loaded.now <= saved.now + 7 * 24

\* the mentions of the last snapshot of self.history, as <<term, count>>
LastMentions ==
  DictGet(history[Len(history)], "mentions", PyDict(<< >>)).v

\* the snapshots that the saving scorer held before the one it added
SavedBefore == SubSeq(saved.history, 1, Len(saved.history) - 1)

\* the hour of a snapshot of self.history
StampHour(snapshot) == HourOf(DictGet(snapshot, "timestamp", PyNone).v)

\* C8: after save_history, a new scorer that loads the file within 7 days,
\* no other snapshot having been added, holds a last snapshot that maps the
\* top 200 terms by count of the saver's counter to their counts, and before
\* it the earlier snapshots that are retained, unchanged.
C8_SaveLoadRoundTrip ==
  LoadedAfterSave =>
    /\ history # << >>
    /\ LET last   == LastMentions
           kept   == { <<last[k][1], last[k][2].v>> : k \in DOMAIN last }
           terms  == { last[k][1] : k \in DOMAIN last }
           counts == { last[k][2].v : k \in DOMAIN last }
           held   == { saved.mentions[i] : i \in DOMAIN saved.mentions }
       IN  /\ Len(last) = IF Len(saved.mentions) < 200
                            THEN Len(saved.mentions) ELSE 200
           \* every term once, with the count that the saver held
           /\ Cardinality(terms) = Len(last)
           /\ kept \subseteq held
           \* no term left out has a higher count than a term kept
           /\ \A m \in held :
                (\E c \in counts : m[2] > c) => m[1] \in terms
    /\ SubSeq(history, 1, Len(history) - 1)
         = SelectSeq(SavedBefore,
                     LAMBDA h : StampHour(h) >= loaded.now - 7 * 24)

\* a counter of more than 200 terms saved after two snapshots of earlier
\* runs, and loaded again
C8_Witness ==
  /\ LoadedAfterSave
  /\ Len(saved.mentions) > 200
  /\ Len(LastMentions) = 200
  /\ Len(history) = 3

\* C10: save_history is atomic: if the build is stopped at any point, in
\* the middle of save_history too, the history file holds the complete
\* previous history or the complete new one, never a partial or empty write.
C10_AtomicSave == pc = "aborted" => file = committed

(***************************************************************************)
(* Properties of the scoring cases                                         *)
(***************************************************************************)
\* the batch that the last score_articles was given is case b
CaseScored(b) ==
  /\ before.done
  /\ before.batch = Len(BatchPool(clock)) + Len(FeedPool(clock)) + b

\* the batch of the last score_articles, as it was given
CaseGiven ==
  CasePool(before.now)[before.batch - Len(BatchPool(clock))
                         - Len(FeedPool(clock))]

\* the article has no engagement value
NoEngagementIn(a) ==
  \/ "engagement" \notin DOMAIN a
  \/ a.engagement = PyNone
  \/ a.engagement = PyDict(<< >>)

\* the article has no published value: the key is absent or its value empty
NoPublishedIn(a) ==
  \/ "published" \notin DOMAIN a
  \/ a.published = PyNone
  \/ a.published = PyStr(<< >>)

\* the highest term score among the terms of the article
BestOf(a) == MaxTermScore(ExtractTerms(ArticleText(a)), term_scores)

\* the trend_score of an article for an engagement factor and a temporal
\* weight
ScoreFor(a, factor, weight) ==
  Round2(RatMul(RatMul(BestOf(a), factor), weight), tie_up)

\* C11: score_articles raises no exception for an article that lacks optional
\* fields: an article with no engagement value gets the engagement factor
\* 1.0, and an article with no published value (the key absent or the value
\* empty) the temporal weight 1.0.
C11_MissingFields ==
  (\E b \in DOMAIN SparseBatches(clock) : CaseScored(b)) =>
    /\ raised = "none"
    /\ pc = "ready"
    /\ \A i \in DOMAIN articles :
         /\ "trend_score" \in DOMAIN articles[i]
         /\ (NoEngagementIn(CaseGiven[i]) /\ NoPublishedIn(CaseGiven[i])) =>
              articles[i].trend_score
                = ScoreFor(CaseGiven[i], Rat(1, 1), Rat(1, 1))
         /\ (NoEngagementIn(CaseGiven[i]) /\ ~ NoPublishedIn(CaseGiven[i])) =>
              articles[i].trend_score
                = ScoreFor(CaseGiven[i], Rat(1, 1),
                           TemporalWeight(CaseGiven[i].published, before.now).w)
         /\ (~ NoEngagementIn(CaseGiven[i]) /\ NoPublishedIn(CaseGiven[i])) =>
              articles[i].trend_score
                = ScoreFor(CaseGiven[i], EngagementFactor(CaseGiven[i]),
                           Rat(1, 1))

(***************************************************************************)
(* Properties of what score_articles returns                               *)
(***************************************************************************)
\* the batch of the last score_articles of the build, as it was fetched
Given == BatchPool(before.now)[before.batch]

\* the fields that score_articles sets
Verdict == {"trend_score", "is_trending"}

\* C12: score_articles returns the list it was given, the articles in their
\* original order, each with a trend_score and an is_trending value; no
\* article is added, removed or moved, and no field other than trend_score
\* and is_trending is changed.
C12_SameListReturned ==
  (pc = "ready" /\ before.done) =>
    /\ Len(articles) = Len(Given)
    /\ \A i \in DOMAIN articles :
         /\ DOMAIN articles[i] = (DOMAIN Given[i]) \cup Verdict
         /\ articles[i].is_trending \in BOOLEAN
         /\ articles[i].trend_score \in Nat
         /\ \A k \in (DOMAIN Given[i]) \ Verdict : articles[i][k] = Given[i][k]

\* a returned list that is not in score order: the second article scores
\* less than the third
C12_Witness ==
  /\ pc = "ready"
  /\ before.done
  /\ Len(articles) = 3
  /\ articles[2].title = Given[2].title
  /\ articles[3].title = Given[3].title
  /\ articles[2].title # articles[3].title
  /\ articles[2].trend_score < articles[3].trend_score

\* the last score_articles was given [] by a scorer that had counted nothing
EmptyScored ==
  /\ before.done
  /\ before.batch = 1
  /\ BatchPool(before.now)[1] = << >>
  /\ before.mentions = << >>

\* the scorer has called save_history
HasSaved == ~ loaded.done /\ pc \in {"saving", "ready"}

\* the last snapshot object of the file
LastInFile == file.doc.v[Len(file.doc.v)]

\* C13: for an empty batch on a newly constructed scorer score_articles([])
\* returns [], get_trending_topics([]) returns [], and a following
\* save_history appends a snapshot whose mentions map is empty, no error in
\* any of the three.
C13_EmptyBatch ==
  EmptyScored =>
    /\ raised = "none"
    /\ pc # "crashed"
    /\ articles = << >>
    /\ fresh => topics = << >>
    /\ HasSaved =>
         /\ history # << >>
         /\ DictGet(history[Len(history)], "mentions", PyNone) = PyDict(<< >>)
         /\ DictGet(history[Len(history)], "timestamp", PyNone)
              = PyStr(IsoFormat(saved.now))
    /\ (HasSaved /\ pc = "ready") =>
         /\ file.kind = "json"
         /\ Len(file.doc.v) = Len(history)
         /\ Member(LastInFile, "mentions") = JObject(<< >>)

\* an empty batch scored, its topics listed and its snapshot written after
\* the two snapshots of earlier runs
C13_Witness ==
  /\ EmptyScored
  /\ fresh
  /\ topics = << >>
  /\ HasSaved
  /\ pc = "ready"
  /\ saved.done
  /\ Len(history) = 3
  /\ Member(LastInFile, "mentions") = JObject(<< >>)

\* a newly constructed scorer with no history has scored three articles of
\* two sources with "GPT-5" in the title
GptScored ==
  /\ pc = "ready"
  /\ history = << >>
  /\ before.mentions = << >>
  /\ \E b \in DOMAIN GptBatches(clock) :
       CaseScored(Len(SparseBatches(clock)) + b)

\* the temporal weight of article i of the batch
WeightOf(i) == TemporalWeight(CaseGiven[i].published, before.now).w

\* C14, as stated: for a batch of 3 articles of 2 sources whose titles hold
\* "GPT-5", scored with no history, the term "GPT-5" has term score 2.3 and
\* every article a trend_score of at least 2.3 times its temporal weight.
C14_AsStated ==
  GptScored =>
    /\ TermGPT5 \in DOMAIN term_scores
    /\ term_scores[TermGPT5] = [n |-> 23, d |-> 10]
    /\ \A i \in DOMAIN articles :
         articles[i].trend_score * 10 * WeightOf(i).d >= 23 * 100 * WeightOf(i).n

\* C14, amended: the term scored is "GPT" (a hyphen ends a word, so "GPT-5"
\* is no term); its term score is 2.0 x 1.15 = 2.3 and every article has a
\* trend_score of at least 2.3 times its temporal weight rounded to two
\* decimals, that is at most 0.005 below the product.
C14_GptScenario ==
  GptScored =>
    /\ TermGPT5 \notin DOMAIN term_scores
    /\ TermGPT \in DOMAIN term_scores
    /\ term_scores[TermGPT] = [n |-> 23, d |-> 10]
    /\ \A i \in DOMAIN articles :
         (2 * articles[i].trend_score + 1) * 10 * WeightOf(i).d
           >= 2 * 23 * 100 * WeightOf(i).n

\* the article that is 2 hours old scores 1.95, less than 2.3 x 0.85
C14_Witness ==
  /\ GptScored
  /\ term_scores[TermGPT] = [n |-> 23, d |-> 10]
  /\ WeightOf(1) = [n |-> 17, d |-> 20]
  /\ articles[1].trend_score = 195
  /\ articles[3].trend_score = 138

(***************************************************************************)
(* Properties of the list of topics                                        *)
(***************************************************************************)
\* the place of term i among the counted terms, from 0: the terms counted
\* more often come first, and of two counted equally often the one that was
\* met first
PlaceOf(i) ==
  Cardinality({ j \in DOMAIN current_mentions :
                  \/ current_mentions[j][2] > current_mentions[i][2]
                  \/ /\ current_mentions[j][2] = current_mentions[i][2]
                     /\ j < i })

\* the velocity of term i is at least 1.0
AtLeastSteady(i) ==
  \/ Total(current_mentions[i][1]) = 0
  \/ current_mentions[i][2] * Len(history) >= Total(current_mentions[i][1])

\* term i is one of the 100 most mentioned, mentioned twice or more, with a
\* velocity of at least 1.0
Eligible(i) ==
  /\ PlaceOf(i) < 100
  /\ current_mentions[i][2] >= 2
  /\ AtLeastSteady(i)

\* the score of term i as a topic
ScoreOfTerm(i) ==
  Round2(RatMul(CalculateVelocity(history, current_mentions[i][1],
                                  current_mentions[i][2]),
                TopicCrossSource(
                  Cardinality(current_sources[current_mentions[i][1]]))),
         tie_up)

\* topics is what get_trending_topics returned for the counters as they are
TopicsListed == pc = "ready" /\ fresh

\* C15: get_trending_topics returns at most 15 topics in non-increasing
\* order of score; every topic is one of the 100 most mentioned terms, has
\* mentions >= 2 and velocity >= 1.0, and lists at most 5 sources with
\* num_sources the number of distinct sources of the term; no eligible term
\* that is left out has a strictly higher score than a returned one.
C15_TopicList ==
  TopicsListed =>
    LET eligible == { i \in DOMAIN current_mentions : Eligible(i) }
        listed   == { topics[k].term : k \in DOMAIN topics }
    IN  /\ Len(topics) <= 15
        /\ \A k \in 1..(Len(topics) - 1) : topics[k].score >= topics[k + 1].score
        /\ Cardinality(listed) = Len(topics)
        /\ \A k \in DOMAIN topics :
             /\ \E i \in eligible :
                  /\ current_mentions[i][1] = topics[k].term
                  /\ current_mentions[i][2] = topics[k].mentions
                  /\ ScoreOfTerm(i) = topics[k].score
             /\ topics[k].mentions >= 2
             /\ topics[k].num_sources
                  = Cardinality(current_sources[topics[k].term])
             /\ topics[k].sources \subseteq current_sources[topics[k].term]
             /\ Cardinality(topics[k].sources) <= 5
        /\ \A i \in eligible :
             current_mentions[i][1] \notin listed =>
               /\ Len(topics) = 15
               /\ \A k \in DOMAIN topics : ScoreOfTerm(i) <= topics[k].score

\* fifteen topics of two scores out of more than 100 terms counted twice or
\* more, one of them beyond the 100 most mentioned
C15_Witness ==
  /\ TopicsListed
  /\ Len(topics) = 15
  /\ topics[1].score > topics[15].score
  /\ \E i \in DOMAIN current_mentions :
       /\ current_mentions[i][2] >= 2
       /\ PlaceOf(i) >= 100
  /\ \E i \in DOMAIN current_mentions :
       /\ Eligible(i)
       /\ ScoreOfTerm(i) < topics[15].score

\* the direction of a term mentioned count times now and total times in the
\* n snapshots of the history: its velocity is count / (total / n), at most 10
DirectionOf(count, total, n) ==
  IF total = 0 THEN "new"
  ELSE IF 10 * count * n > 15 * total THEN "up"
  ELSE IF 10 * count * n > 8 * total THEN "stable"
  ELSE "down"

\* C16: every topic returned by get_trending_topics has the direction "new"
\* if there is no history of its term, otherwise "up" if its velocity is
\* more than 1.5, otherwise "stable" if it is more than 0.8, otherwise "down".
C16_Direction ==
  TopicsListed =>
    \A k \in DOMAIN topics :
      topics[k].direction
        = DirectionOf(topics[k].mentions, Total(topics[k].term), Len(history))

\* a term mentioned 3 times against an average of 2: velocity 1.5 exactly,
\* which is "stable"
C16_Witness ==
  /\ TopicsListed
  /\ \E k \in DOMAIN topics :
       /\ topics[k].term = TermRust
       /\ topics[k].mentions = 3
       /\ Total(TermRust) = 4
       /\ Len(history) = 2
       /\ topics[k].velocity = 150
       /\ topics[k].direction = "stable"

(***************************************************************************)
(* Properties of the historical average                                    *)
(***************************************************************************)
AverageCalled == call.fn = "_get_historical_avg"

\* C17: the historical average of a term is the sum of its counts over the
\* retained snapshots divided by the number of retained snapshots, a
\* snapshot without the term counting 0 and still enlarging the divisor; it
\* is 0.0 when no snapshot is retained.
C17_HistoricalAverage ==
  AverageCalled =>
    IF history = << >>
      THEN call.result.n = 0 /\ call.result.d = 1
      ELSE call.result.n * Len(history) = Total(call.term) * call.result.d

\* the average of a term that one of two retained snapshots holds, 4 times
C17_Witness ==
  /\ AverageCalled
  /\ call.term = TermRust
  /\ Len(history) = 2
  /\ CountIn(1, TermRust) = 4
  /\ CountIn(2, TermRust) = 0
  /\ call.result.n = 2
  /\ call.result.d = 1

(***************************************************************************)
(* Properties of save_history                                              *)
(***************************************************************************)
\* the pairs are the highest counts of the counter: no more than 200, every
\* term once with its count, and no term left out counted more than one kept
HoldsTop(pairs, counter) ==
  LET kept   == { <<pairs[k][1], pairs[k][2].v>> : k \in DOMAIN pairs }
      lowest == { pairs[k][2].v : k \in DOMAIN pairs }
      held   == { counter[i] : i \in DOMAIN counter }
  IN  /\ Len(pairs) <= 200
      /\ Len(pairs) = Len(counter) \/ Len(pairs) = 200
      /\ Cardinality({ pairs[k][1] : k \in DOMAIN pairs }) = Len(pairs)
      /\ kept \subseteq held
      /\ \A m \in held \ kept : \A c \in lowest : m[2] <= c

\* save_history up to the opening of the file: the list after it is the
\* snapshots of the list before that are no older than 7 days, in their
\* order, and then one snapshot of the counter
Appended(old, new, counter, now) ==
  /\ new # << >>
  /\ SubSeq(new, 1, Len(new) - 1)
       = SelectSeq(old, LAMBDA h : StampHour(h) >= now - 7 * 24)
  /\ StampHour(new[Len(new)]) = now
  /\ HoldsTop(DictGet(new[Len(new)], "mentions", PyDict(<< >>)).v, counter)

\* C18: each save_history appends exactly one snapshot, of at most 200 terms
\* that are the highest counts of the Mention Counter, after the snapshots
\* already retained; it removes only snapshots older than 7 days and writes
\* the resulting list to the file, so that no snapshot within the window is
\* dropped or moved.
C18_AppendOnly ==
  [][ /\ (pc = "ready" /\ pc' = "saving") =>
           Appended(history, history', current_mentions, clock)
      /\ (pc = "saving" /\ pc' = "ready") =>
           /\ history' = history
           /\ file'.kind = "json"
           /\ JsonLoad(file'.doc) = PyList(history) ]_vars

\* a save one hour after the load: the snapshot that was at the edge of the
\* window is removed, the later one is kept, and the snapshot appended holds
\* 200 of more than 200 terms
C18_Witness ==
  /\ pc = "saving"
  /\ loaded.file = FileThreeRuns
  /\ loaded.now = StartClock
  /\ saved.now = StartClock + 1
  /\ Len(saved.mentions) > 200
  /\ Len(history) = 2
  /\ StampHour(history[1]) = StartClock - 24
  /\ Len(LastMentions) = 200

(***************************************************************************)
(* Properties of the counters of a scoring pass                            *)
(***************************************************************************)
\* the occurrences of the term in the batch given to the last score_articles
OccurrencesIn(arts, term) ==
  { k \in DOMAIN Mentions(arts) : Mentions(arts)[k][1] = term }

\* C19: after score_articles(B) returns, each term's count is its number of
\* occurrences in B and its source set is the sources of the articles of B
\* that mention it, whatever score_articles calls the scorer served before.
C19_CountersOfOnePass ==
  (pc = "ready" /\ before.done) =>
    /\ \A i \in DOMAIN current_mentions :
         current_mentions[i][2]
           = Cardinality(OccurrencesIn(Given, current_mentions[i][1]))
    /\ \A term \in DOMAIN current_sources :
         current_sources[term]
           = { Mentions(Given)[k][2] : k \in OccurrencesIn(Given, term) }

(***************************************************************************)
(* Properties of a build run                                               *)
(***************************************************************************)
\* a step of score_articles or of get_trending_topics
ScoringStep == (before'.done /\ before' # before) \/ (fresh' /\ ~ fresh)

\* the scorer of the run has scored and has not saved yet
RunUnsaved == loaded.done /\ before.done

\* C20: in a build run the history is loaded before any scoring, and the
\* snapshot of the run is saved exactly once, after score_articles and
\* get_trending_topics have both finished; every velocity of the run is
\* computed from the snapshots of earlier runs only.
C20_SavedAfterScoring ==
  /\ [](pc = "saving" => (before.done /\ fresh))
  /\ [](saves = IF RunUnsaved THEN passes - 1 ELSE passes)
  /\ [][ /\ (pc = "ready" /\ pc' = "saving") => (loaded.done /\ fresh)
         /\ (ScoringStep /\ pc' = "ready") =>
              /\ loaded'.done
              /\ loaded'.file = committed
              /\ history' = LoadHistory(committed, loaded'.now).history ]_vars

\* the second run has scored and listed its topics from the snapshot that
\* the first run saved
C20_Witness ==
  /\ pc = "ready"
  /\ passes = 2
  /\ saves = 1
  /\ saved.done
  /\ RunUnsaved
  /\ fresh
  /\ loaded.now = saved.now
  /\ history = saved.history
  /\ history # << >>

(***************************************************************************)
(* Properties of the score of an article                                   *)
(***************************************************************************)
\* score_articles has returned from a batch of the cases
CaseReturned == pc = "ready" /\ raised = "none" /\ before.done

\* the terms of article i of the batch given
TermsOfGiven(i) ==
  LET terms == ExtractTerms(ArticleText(CaseGiven[i]))
  IN  { terms[k] : k \in DOMAIN terms }

\* the temporal weight of article i of the batch given, 1.0 for an article
\* without a published key
WeightOfGiven(i) ==
  IF "published" \in DOMAIN CaseGiven[i]
    THEN TemporalWeight(CaseGiven[i].published, before.now).w
    ELSE Rat(1, 1)

\* the highest term score among the terms of article i, 0.0 when none of
\* them has a term score
HighestOf(i) ==
  LET own == { term_scores[t] : t \in TermsOfGiven(i) \cap DOMAIN term_scores }
  IN  IF own = {} THEN Rat(0, 1)
      ELSE CHOOSE m \in own : \A o \in own : RatLeq(o, m)

\* hundredths is x rounded to 2 decimals: no further than 0.005 from it
RoundedTo(x, hundredths) ==
  LET gap == 100 * x.n - hundredths * x.d
  IN  2 * gap <= x.d /\ - 2 * gap <= x.d

\* the count of the term in the Mention Counter
CountOf(term) ==
  LET at == { i \in DOMAIN current_mentions : current_mentions[i][1] = term }
  IN  IF at = {} THEN 0 ELSE current_mentions[CHOOSE i \in at : TRUE][2]

\* C21: the trend_score of an article is the maximum term score among the
\* terms of its title and summary (0.0 when none has a term score) times its
\* engagement factor times its temporal weight, rounded to 2 decimals; an
\* article none of whose terms has a count of 2 or more scores 0.0 and is
\* not trending.
C21_ArticleScore ==
  CaseReturned =>
    \A i \in DOMAIN articles :
      /\ RoundedTo(RatMul(RatMul(HighestOf(i), EngagementFactor(CaseGiven[i])),
                          WeightOfGiven(i)),
                   articles[i].trend_score)
      /\ (\A t \in TermsOfGiven(i) : CountOf(t) < 2) =>
           /\ articles[i].trend_score = 0
           /\ ~ articles[i].is_trending

\* a batch with an article that has engagement, is older than an hour and
\* scores above 0, and an article whose only terms are counted once
C21_Witness ==
  /\ CaseReturned
  /\ \E i \in DOMAIN articles :
       /\ EngagementFactor(CaseGiven[i]) # Rat(1, 1)
       /\ WeightOfGiven(i) # Rat(1, 1)
       /\ articles[i].trend_score > 0
  /\ \E i \in DOMAIN articles :
       /\ TermsOfGiven(i) # {}
       /\ \A t \in TermsOfGiven(i) : CountOf(t) < 2
       /\ articles[i].trend_score = 0

(***************************************************************************)
(* Properties of the fields that score_articles overwrites                 *)
(***************************************************************************)
\* the batch with other incoming values of trend_score and is_trending
Marked(arts, score, trending) ==
  [i \in DOMAIN arts |->
     SetItem(SetItem(arts[i], "trend_score", score), "is_trending", trending)]

\* the batch with neither field set
Unmarked(arts) ==
  [i \in DOMAIN arts |-> DelItem(DelItem(arts[i], "trend_score"), "is_trending")]

\* what the last score_articles gives for the batch arts in place of its own
VerdictsFor(arts) ==
  Verdicts(ScoreArticlesResult(before.mentions, before.sources, history, arts,
                               before.now, tie_up).articles)

\* C22: score_articles never reads the incoming trend_score or is_trending:
\* batches that differ only in the incoming values of these two fields get
\* the same trend_score and is_trending for every article.
C22_VerdictsNotRead ==
  HasScored =>
    /\ VerdictsFor(Marked(Given, 999, TRUE)) = Verdicts(articles)
    /\ VerdictsFor(Marked(Given, 40, FALSE)) = Verdicts(articles)
    /\ VerdictsFor(Unmarked(Given)) = Verdicts(articles)

\* a scored batch with a trending article and one that is not, neither with
\* the score of the marked batches
C22_Witness ==
  /\ HasScored
  /\ before.mentions # << >>
  /\ \E i \in DOMAIN articles :
       /\ articles[i].is_trending
       /\ articles[i].trend_score \notin {40, 999}
  /\ \E i \in DOMAIN articles :
       /\ ~ articles[i].is_trending
       /\ articles[i].trend_score \notin {40, 999}

(***************************************************************************)
(* Properties of _temporal_weight                                          *)
(***************************************************************************)
WeightCalled == call.fn = "_temporal_weight"

\* the weight in hundredths
Hundredths(w) == (100 * w.n) \div w.d

Declining(i) ==
  /\ Total(current_mentions[i][1]) > 0
  /\ current_mentions[i][2] * Len(history) < Total(current_mentions[i][1])

\* C24: no topic returned by get_trending_topics has the direction "down":
\* a term with a velocity under 1.0 is skipped, so every topic is "new",
\* "up", or "stable" with a velocity between 1.0 and 1.5.
C24_NoTopicDown ==
  TopicsListed =>
    /\ \A k \in DOMAIN topics :
         /\ topics[k].direction # "down"
         /\ topics[k].direction \in {"new", "up", "stable"}
         /\ topics[k].direction = "stable" =>
              (100 <= topics[k].velocity /\ topics[k].velocity <= 150)
         /\ topics[k].velocity >= 100
    /\ \A i \in DOMAIN current_mentions :
         Declining(i) =>
           \A k \in DOMAIN topics : topics[k].term # current_mentions[i][1]

\* a term counted twice against an average of 3, which is left out, beside
\* a stable topic
C24_Witness ==
  /\ TopicsListed
  /\ \E i \in DOMAIN current_mentions :
       /\ current_mentions[i][2] >= 2
       /\ Declining(i)
       /\ 10 * current_mentions[i][2] * Len(history)
            <= 8 * Total(current_mentions[i][1])
  /\ \E k \in DOMAIN topics : topics[k].direction = "stable"

(***************************************************************************)
(* Properties of the velocities that are used                              *)
(***************************************************************************)
\* the cross-source bonus of the term, in hundredths
BonusOf(term) ==
  LET grown == 100 + 15 * (Cardinality(current_sources[term]) - 1)
  IN  IF grown < 200 THEN grown ELSE 200

\* C25: score_articles and get_trending_topics compute a velocity only for a
\* count of 2 or more, so the velocity 1.5 of a term counted once and not in
\* the history enters no term score, trend_score or topic: every scored term
\* with a historical average of 0 has the velocity 2.0 exactly.
C25_NoSingleMentionBoost ==
  before.done =>
    /\ DOMAIN term_scores
         = { current_mentions[i][1] :
               i \in { j \in DOMAIN current_mentions :
                         current_mentions[j][2] >= 2 } }
    /\ \A term \in DOMAIN term_scores :
         Total(term) = 0 =>
           100 * term_scores[term].n = 2 * BonusOf(term) * term_scores[term].d
    /\ TopicsListed =>
         \A k \in DOMAIN topics :
           /\ topics[k].mentions >= 2
           /\ Total(topics[k].term) = 0 =>
                /\ topics[k].velocity = 200
                /\ topics[k].score = 2 * BonusOf(topics[k].term)

\* a new term counted once beside a new term counted more often, which is
\* scored and listed
C25_Witness ==
  /\ TopicsListed
  /\ raised = "none"
  /\ \E i \in DOMAIN current_mentions :
       /\ current_mentions[i][2] = 1
       /\ Total(current_mentions[i][1]) = 0
       /\ current_mentions[i][1] \notin DOMAIN term_scores
  /\ \E k \in DOMAIN topics :
       /\ Total(topics[k].term) = 0
       /\ topics[k].term \in DOMAIN term_scores
       /\ topics[k].velocity = 200
  /\ \E i \in DOMAIN articles : articles[i].trend_score > 0

(***************************************************************************)
(* Properties of the argument of get_trending_topics                       *)
(***************************************************************************)
\* topics is what the last get_trending_topics returned, and no
\* score_articles has run since
TopicsReturned ==
  /\ pc = "ready"
  /\ call.fn = "get_trending_topics"
  /\ before.done => fresh

\* the topics but for the sample of sources of each
Unsampled(tops) ==
  [k \in DOMAIN tops |-> [tops[k] EXCEPT !.sources = {}]]

\* C26: what get_trending_topics returns depends on the Mention Counter, the
\* source sets and the history of the scorer only: in the same scorer state
\* it returns the same topics for any other argument, it returns [] on a
\* scorer that never scored, and it changes neither the counters, the
\* history nor the articles.
C26_ArgumentUnused ==
  /\ [](TopicsReturned =>
          /\ \A a \in DOMAIN ArgPool(clock) :
               LET returned ==
                     { TopicsGiven(ArgPool(clock)[a], current_mentions,
                                   current_sources, history, tie_up, sample) :
                         sample \in SampleChoices(current_mentions,
                                                  current_sources) }
               IN  /\ topics \in returned
                   /\ \A other \in returned :
                        Unsampled(other) = Unsampled(topics)
          /\ ~ before.done => topics = << >>)
  /\ [][(pc = "ready" /\ call'.fn = "get_trending_topics" /\ before' = before)
          => UNCHANGED << current_mentions, current_sources, history,
                          articles, term_scores, file >>]_vars

\* topics listed for a list of one article that was never scored, on a
\* scorer that has scored another batch
C26_Witness ==
  /\ TopicsReturned
  /\ before.done
  /\ call.arg = 3
  /\ topics # << >>
  /\ articles # ArgPool(clock)[3]
  /\ \E k \in DOMAIN topics : topics[k].num_sources > 5

====
